---- MODULE Spec2Model ----
(***************************************************************************)
(* The convex-optimisation aggregates of MADlib (modules/convex):          *)
(* transition / merge / final / distance of the linear SVM and logistic    *)
(* regression solvers (IGD, conjugate gradient) and of the step-size       *)
(* search ("best ball"), together with the pass-by-pass use the iteration  *)
(* driver makes of them.                                                   *)
(*                                                                         *)
(* A C++ double is modelled as an extended rational <<n, d>>: d > 0 is the *)
(* exact fraction n/d in lowest terms, <<1,0>> and <<-1,0>> are +Inf and   *)
(* -Inf, <<0,0>> is NaN.  Rounding and the sign of zero are abstracted.    *)
(***************************************************************************)
EXTENDS Integers, Sequences, FiniteSets, TLC

(* ------------------------------------------------------------------ *)
(* Bounds of the model                                                 *)
(* ------------------------------------------------------------------ *)

\* examples folded in one pass, over all workers
MaxRows == 3

\* parallel workers (partitions) of one pass
NumWorkers == 2

\* largest magnitude of the finite doubles taken for a cell of memory that
\* lies outside the array a loop was given
MaxBeyond == 3

(* ------------------------------------------------------------------ *)
(* double arithmetic                                                   *)
(* ------------------------------------------------------------------ *)

Abs(i) == IF i < 0 THEN -i ELSE i

Sign(i) == IF i < 0 THEN -1 ELSE IF i > 0 THEN 1 ELSE 0

RECURSIVE GCD(_, _)
GCD(a, b) == IF b = 0 THEN a ELSE GCD(b, a % b)

Norm(n, d) ==
    IF d = 0 THEN <<Sign(n), 0>>
    ELSE LET g == GCD(Abs(n), Abs(d))
             s == Sign(d)
         IN  <<(s * n) \div g, Abs(d) \div g>>

Zero == <<0, 1>>

One == <<1, 1>>

NaN == <<0, 0>>

PosInf == <<1, 0>>

FromInt(i) == <<i, 1>>

IsFinite(a) == a[2] # 0

IsNaN(a) == a = NaN

FNeg(a) == <<-a[1], a[2]>>

FAbs(a) == <<Abs(a[1]), a[2]>>

FAdd(a, b) ==
    IF IsNaN(a) \/ IsNaN(b) THEN NaN
    ELSE IF ~IsFinite(a) /\ ~IsFinite(b) THEN (IF a = b THEN a ELSE NaN)
    ELSE IF ~IsFinite(a) THEN a
    ELSE IF ~IsFinite(b) THEN b
    ELSE Norm(a[1] * b[2] + b[1] * a[2], a[2] * b[2])

FSub(a, b) == FAdd(a, FNeg(b))

FMul(a, b) ==
    IF ~IsFinite(a) \/ ~IsFinite(b) THEN <<Sign(a[1]) * Sign(b[1]), 0>>
    ELSE Norm(a[1] * b[1], a[2] * b[2])

\* IEEE 754 division: x/0 is +-Inf, 0/0 and Inf/Inf are NaN; nothing traps
FDiv(a, b) ==
    IF IsNaN(a) \/ IsNaN(b) THEN NaN
    ELSE IF ~IsFinite(a) THEN
        (IF ~IsFinite(b) THEN NaN
         ELSE <<a[1] * (IF b[1] < 0 THEN -1 ELSE 1), 0>>)
    ELSE IF ~IsFinite(b) THEN Zero
    ELSE IF b[1] = 0 THEN <<Sign(a[1]), 0>>
    ELSE Norm(a[1] * b[2], a[2] * b[1])

\* a < b on doubles: false as soon as one side is NaN
FLess(a, b) ==
    IF IsNaN(a) \/ IsNaN(b) THEN FALSE
    ELSE IF ~IsFinite(a) THEN (a[1] < 0 /\ b # a)
    ELSE IF ~IsFinite(b) THEN b[1] > 0
    ELSE a[1] * b[2] < b[1] * a[2]

FGreater(a, b) == FLess(b, a)

(* ------------------------------------------------------------------ *)
(* column vectors of doubles                                           *)
(* ------------------------------------------------------------------ *)

ZeroVector(n) == [i \in 1..n |-> Zero]

VAdd(u, v) == [i \in 1..Len(u) |-> FAdd(u[i], v[i])]

VScale(c, v) == [i \in 1..Len(v) |-> FMul(c, v[i])]

RECURSIVE DotFrom(_, _, _)
DotFrom(u, v, i) ==
    IF i > Len(u) THEN Zero
    ELSE FAdd(FMul(u[i], v[i]), DotFrom(u, v, i + 1))

dot(u, v) == DotFrom(u, v, 1)

(* ------------------------------------------------------------------ *)
(* Values of the arguments                                             *)
(* ------------------------------------------------------------------ *)

\* SQL NULL, and what an aggregate returns for "no data"
Null == [isNull |-> TRUE]

\* an array handed over as an AnyType value that is not NULL
AnyType(v) == [isNull |-> FALSE, value |-> v]

Half == <<1, 2>>

\* args[4]
Dimensions == {1, 2}

\* args[5]
Stepsizes == {Half, One}

\* one component of an independent variable
FeatureVals == {Zero, One}

\* what a cell of memory outside an array holds when it is read as a double:
\* any bit pattern, so any double.  Taken here: every multiple of 1/4 of
\* magnitude at most MaxBeyond (negative numbers, 0, numbers between two
\* candidates, the candidates' own values, numbers above every candidate),
\* a number of large magnitude, both infinities and NaN
BeyondCells ==
    {Norm(n, 4) : n \in (-4 * MaxBeyond)..(4 * MaxBeyond)}
        \cup {<<-3109, 4>>, PosInf, FNeg(PosInf), NaN}

\* the cells of BeyondCells taken where a call reads several cells outside
\* an array: a negative number, 0, a positive number, the infinities, NaN.
\* A search for the smallest loss only compares the cells, with one another
\* and with the losses of the list (none of which is negative), and these
\* cells stand in every order it can find
SearchCells ==
    {c \in BeyondCells :
        ~IsFinite(c) \/ c \in {FromInt(-MaxBeyond), Zero, FromInt(MaxBeyond)}}

\* the cells taken where a call reads a vector operand past its end: 0, a
\* number, and a cell that holds no number
ReadCells == {Zero, FromInt(MaxBeyond), NaN}

RECURSIVE ReadLists(_)
ReadLists(n) ==
    IF n <= 0 THEN { << >> }
    ELSE {<<c>> \o rest : c \in ReadCells, rest \in ReadLists(n - 1)}

\* the n cells that follow the last element of an array
RECURSIVE BeyondLists(_)
BeyondLists(n) ==
    IF n <= 0 THEN { << >> }
    ELSE {<<c>> \o rest : c \in SearchCells, rest \in BeyondLists(n - 1)}

\* args[1]: independent variables of a tuple, of length d
IndVars(d) ==
    IF d = 1 THEN [1..1 -> FeatureVals] ELSE { <<One, Zero>>, <<One, One>> }

\* args[1], args[2]: the tuple (indVar, depVar); depVar = args[2] ? 1. : -1.
GLMTuples(d) == [indVar : IndVars(d), depVar : {One, FNeg(One)}]

(* ------------------------------------------------------------------ *)
(* task/linear_svm.hpp, task/logit.hpp: the objectives                 *)
(* ------------------------------------------------------------------ *)

\* hinge loss: 1 - y*wx when that is positive, otherwise 0
LinearSVM_loss(model, x, y) ==
    LET distance == FSub(One, FMul(dot(model, x), y))
    IN  IF FGreater(distance, Zero) THEN distance ELSE Zero

\* hinge subgradient: -y*x when the margin is below 1, otherwise zero
\* (a margin of exactly 1 gives the zero gradient)
LinearSVM_gradient(model, x, y) ==
    IF FGreater(FSub(One, FMul(dot(model, x), y)), Zero)
    THEN VScale(FNeg(y), x)
    ELSE ZeroVector(Len(x))

\* model -= stepsize * gradient
LinearSVM_gradientInPlace(model, x, y, stepsize) ==
    VAdd(model, VScale(FNeg(stepsize), LinearSVM_gradient(model, x, y)))

LinearSVM_predict(model, x) == dot(model, x)

\* The sigmoid and log(1 + exp(z)) are not rational functions.  Each is
\* modelled by a step function of three levels that keeps its value class at
\* 0, its monotonicity and its range: sigma(0) = 1/2, sigma(z) < 1/2 < sigma(-z)
\* for z < 0.
Logit_sigma(z) ==
    IF z = Zero THEN Half
    ELSE IF FGreater(z, Zero) THEN <<3, 4>> ELSE <<1, 4>>

Logit_log1pexp(z) ==
    IF z = Zero THEN <<7, 10>>
    ELSE IF FGreater(z, Zero) THEN <<7, 5>> ELSE <<3, 10>>

\* gradient of the logistic loss: -sigma(-y*wx) * y * x; model -= stepsize * it
Logit_gradientInPlace(model, x, y, stepsize) ==
    LET wx == dot(model, x)
        sig == Logit_sigma(FNeg(FMul(wx, y)))
    IN  VAdd(model, VScale(FMul(stepsize, FMul(sig, y)), x))

\* log(1 + exp(-y*wx))
Logit_loss(model, x, y) == Logit_log1pexp(FNeg(FMul(dot(model, x), y)))

\* sigma(wx)
Logit_predict(model, x) == Logit_sigma(dot(model, x))

Task_gradientInPlace(Task, model, x, y, stepsize) ==
    IF Task = "LinearSVM" THEN LinearSVM_gradientInPlace(model, x, y, stepsize)
    ELSE Logit_gradientInPlace(model, x, y, stepsize)

Task_loss(Task, model, x, y) ==
    IF Task = "LinearSVM" THEN LinearSVM_loss(model, x, y)
    ELSE Logit_loss(model, x, y)

(* ------------------------------------------------------------------ *)
(* Exceptions: a call that throws returns no state.  The statements    *)
(* after a throwing one are not executed.                              *)
(* ------------------------------------------------------------------ *)

Raised == [raised |-> TRUE]

(* ------------------------------------------------------------------ *)
(* Operands that do not fit.  No function of the module compares the   *)
(* length of an array it is given with the length of the vector it     *)
(* combines it with.  A coefficient-wise operation runs over the cells *)
(* of the vector it writes (u in VAdd(u, v), the model in dot(model,   *)
(* x)); of a longer operand the cells beyond that length are not read, *)
(* of a shorter one cells outside the array are: undefined behaviour.  *)
(* The functions below take the operand as it is read; the cells read  *)
(* outside an array, and the other outcome (the call ends the query),  *)
(* are chosen by the action that makes the call.                       *)
(* ------------------------------------------------------------------ *)

\* the n doubles read from the first cell of array v on: v's own cells and,
\* past its end, the cells of memory that follow it (beyond)
ReadAs(v, n, beyond) ==
    [i \in 1..n |-> IF i <= Len(v) THEN v[i] ELSE beyond[i - Len(v)]]

(* ------------------------------------------------------------------ *)
(* type/state.hpp: GLMIGDState                                         *)
(* ------------------------------------------------------------------ *)

\* INITCOND of the step aggregates: every cell 0
GLMIGDState_initcond ==
    [task |-> [dimension |-> 0, stepsize |-> Zero, model |-> << >>],
     algo |-> [numRows |-> 0, loss |-> Zero, incrModel |-> << >>]]

\* state.allocate(*this, dimension): a zeroed array of that dimension
GLMIGDState_allocate(dimension) ==
    [task |-> [dimension |-> dimension, stepsize |-> Zero,
               model |-> ZeroVector(dimension)],
     algo |-> [numRows |-> 0, loss |-> Zero,
               incrModel |-> ZeroVector(dimension)]]

\* state = previousState: the whole array is copied
GLMIGDState_assign(state, previousState) == previousState

\* state.reset(): the algorithm's fields start over from the task's model
GLMIGDState_reset(state) ==
    [state EXCEPT !.algo = [numRows |-> 0, loss |-> Zero,
                            incrModel |-> state.task.model]]

(* ------------------------------------------------------------------ *)
(* algo/igd.hpp, algo/loss.hpp                                         *)
(* ------------------------------------------------------------------ *)

\* IGD::transition: the incremental model takes one gradient step
IGD_transition(Task, state, tuple) ==
    [state EXCEPT !.algo.incrModel =
        Task_gradientInPlace(Task, @, tuple.indVar, tuple.depVar,
                             state.task.stepsize)]

\* IGD::merge: the two incremental models are averaged, weighted by the rows
\* each state has seen, as the two numRows stand when it is called
IGD_merge(state, otherState) ==
    LET nL == FromInt(state.algo.numRows)
        nR == FromInt(otherState.algo.numRows)
        totalNumRows == FAdd(nL, nR)
    IN  [state EXCEPT !.algo.incrModel =
            VScale(FDiv(One, totalNumRows),
                   VAdd(VScale(nL, @),
                        VScale(nR, otherState.algo.incrModel)))]

\* IGD::final: the incremental model becomes the task's model
IGD_final(state) == [state EXCEPT !.task.model = state.algo.incrModel]

\* Loss::transition: the loss of the pass's model on the tuple is added
Loss_transition(Task, state, tuple) ==
    [state EXCEPT !.algo.loss =
        FAdd(@, Task_loss(Task, state.task.model, tuple.indVar,
                          tuple.depVar))]

\* Loss::merge
Loss_merge(state, otherState) ==
    [state EXCEPT !.algo.loss = FAdd(@, otherState.algo.loss)]

(* ------------------------------------------------------------------ *)
(* linear_svm_igd.cpp, logit_igd.cpp: the IGD aggregates               *)
(* ------------------------------------------------------------------ *)

\* variant: the row is not counted
numRows_incr_dropped(state) == state

numRows_incr(state) == [state EXCEPT !.algo.numRows = @ + 1]

\* variant: the accumulators of the copied state are not reset
linear_svm_igd_init_noReset(previous, dimension, stepsize) ==
    IF previous # Null
    THEN [GLMIGDState_assign(GLMIGDState_allocate(previous.task.dimension),
                             previous)
             EXCEPT !.task.stepsize = stepsize]
    ELSE [GLMIGDState_allocate(dimension) EXCEPT !.task.stepsize = stepsize]

linear_svm_igd_init(previous, dimension, stepsize) ==
    GLMIGDState_reset(
        IF previous # Null
        THEN [GLMIGDState_assign(GLMIGDState_allocate(previous.task.dimension),
                                 previous)
                 EXCEPT !.task.stepsize = stepsize]
        ELSE [GLMIGDState_allocate(dimension) EXCEPT !.task.stepsize = stepsize])

linear_svm_igd_transition(state, tuple, previous, dimension, stepsize) ==
    LET s0 == IF state.algo.numRows = 0
              THEN linear_svm_igd_init(previous, dimension, stepsize)
              ELSE state
        s1 == IGD_transition("LinearSVM", s0, tuple)
        s2 == Loss_transition("LinearSVM", s1, tuple)
    IN  numRows_incr(s2)

logit_igd_init(previous, dimension, stepsize) ==
    GLMIGDState_reset(
        IF previous # Null
        THEN GLMIGDState_assign(GLMIGDState_allocate(previous.task.dimension),
                                previous)
        ELSE [GLMIGDState_allocate(dimension) EXCEPT !.task.stepsize = stepsize])

logit_igd_transition(state, tuple, previous, dimension, stepsize) ==
    LET s0 == IF state.algo.numRows = 0
              THEN logit_igd_init(previous, dimension, stepsize)
              ELSE state
        s1 == IGD_transition("Logit", s0, tuple)
        s2 == Loss_transition("Logit", s1, tuple)
    IN  numRows_incr(s2)

\* variant: the right-hand count is not added
numRows_add_dropped(stateLeft, stateRight) == stateLeft

\* stateLeft.algo.numRows += stateRight.algo.numRows
numRows_add(stateLeft, stateRight) ==
    [stateLeft EXCEPT !.algo.numRows = @ + stateRight.algo.numRows]

\* variant: an empty left-hand state is merged like any other
linear_svm_igd_merge_noLeftTest(stateLeft, stateRight) ==
    IF stateRight.algo.numRows = 0 THEN stateLeft
    ELSE numRows_add(Loss_merge(IGD_merge(stateLeft, stateRight), stateRight),
                     stateRight)

\* variant: numRows is updated before the models are averaged
linear_svm_igd_merge_countFirst(stateLeft, stateRight) ==
    IF stateLeft.algo.numRows = 0 THEN stateRight
    ELSE IF stateRight.algo.numRows = 0 THEN stateLeft
    ELSE Loss_merge(IGD_merge(numRows_add(stateLeft, stateRight), stateRight),
                    stateRight)

\* variant: the configuration cells are added up like the accumulators
linear_svm_igd_merge_addCells(stateLeft, stateRight) ==
    IF stateLeft.algo.numRows = 0 THEN stateRight
    ELSE IF stateRight.algo.numRows = 0 THEN stateLeft
    ELSE LET merged == numRows_add(Loss_merge(IGD_merge(stateLeft, stateRight),
                                              stateRight),
                                   stateRight)
         IN  [merged EXCEPT
                 !.task.dimension = @ + stateRight.task.dimension,
                 !.task.stepsize = FAdd(@, stateRight.task.stepsize)]

\* variant: the models are not averaged, the losses and counts are added
linear_svm_igd_merge_noModel(stateLeft, stateRight) ==
    IF stateLeft.algo.numRows = 0 THEN stateRight
    ELSE IF stateRight.algo.numRows = 0 THEN stateLeft
    ELSE numRows_add(Loss_merge(stateLeft, stateRight), stateRight)

linear_svm_igd_merge(stateLeft, stateRight) ==
    IF stateLeft.algo.numRows = 0 THEN stateRight
    ELSE IF stateRight.algo.numRows = 0 THEN stateLeft
    ELSE numRows_add(Loss_merge(IGD_merge(stateLeft, stateRight), stateRight),
                     stateRight)

logit_igd_merge(stateLeft, stateRight) ==
    IF stateLeft.algo.numRows = 0 THEN stateRight
    ELSE IF stateRight.algo.numRows = 0 THEN stateLeft
    ELSE numRows_add(Loss_merge(IGD_merge(stateLeft, stateRight), stateRight),
                     stateRight)

\* variant: the final function turns the summed loss into a mean
linear_svm_igd_final_meanLoss(state) ==
    IF state.algo.numRows = 0 THEN Null
    ELSE [IGD_final(state) EXCEPT
             !.algo.loss = FDiv(@, FromInt(state.algo.numRows))]

linear_svm_igd_final(state) ==
    IF state.algo.numRows = 0 THEN Null ELSE IGD_final(state)

logit_igd_final(state) ==
    IF state.algo.numRows = 0 THEN Null ELSE IGD_final(state)

(* ------------------------------------------------------------------ *)
(* type/state.hpp: GLMCGState; algo/conjugate_gradient.hpp             *)
(* ------------------------------------------------------------------ *)

GLMCGState_initcond ==
    [task |-> [dimension |-> 0, iteration |-> 0, model |-> << >>,
               direction |-> << >>, gradient |-> << >>],
     algo |-> [numRows |-> 0, loss |-> Zero, incrGradient |-> << >>]]

GLMCGState_allocate(dimension) ==
    [task |-> [dimension |-> dimension, iteration |-> 0,
               model |-> ZeroVector(dimension),
               direction |-> ZeroVector(dimension),
               gradient |-> ZeroVector(dimension)],
     algo |-> [numRows |-> 0, loss |-> Zero,
               incrGradient |-> ZeroVector(dimension)]]

GLMCGState_assign(state, previousState) == previousState

GLMCGState_reset(state) ==
    [state EXCEPT !.algo = [numRows |-> 0, loss |-> Zero,
                            incrGradient |-> ZeroVector(state.task.dimension)]]

\* ConjugateGradient::transition: the gradient at the pass's model is summed
ConjugateGradient_transition(state, tuple) ==
    [state EXCEPT !.algo.incrGradient =
        VAdd(@, LinearSVM_gradient(state.task.model, tuple.indVar,
                                   tuple.depVar))]

\* ConjugateGradient::merge: the gradient sums add up
ConjugateGradient_merge(state, otherState) ==
    [state EXCEPT !.algo.incrGradient = VAdd(@, otherState.algo.incrGradient)]

\* ConjugateGradient::final: the new search direction from the summed
\* gradient and the previous direction (Fletcher-Reeves); the summed gradient
\* is kept for the next pass
ConjugateGradient_final(state) ==
    LET g == state.algo.incrGradient
        beta == FDiv(dot(g, g), dot(state.task.gradient, state.task.gradient))
    IN  [state EXCEPT
            !.task.direction =
                IF state.task.iteration = 0 THEN VScale(FNeg(One), g)
                ELSE VAdd(VScale(FNeg(One), g), VScale(beta, @)),
            !.task.gradient = g]

(* ------------------------------------------------------------------ *)
(* linear_svm_cg.cpp: the conjugate-gradient aggregate                 *)
(* ------------------------------------------------------------------ *)

linear_svm_cg_init(previous, dimension) ==
    GLMCGState_reset(
        IF previous # Null
        THEN GLMCGState_assign(GLMCGState_allocate(previous.task.dimension),
                               previous)
        ELSE GLMCGState_allocate(dimension))

\* variant: the initialization block runs on every call
linear_svm_cg_transition_reinit(state, tuple, previous, dimension) ==
    LET s0 == linear_svm_cg_init(previous, dimension)
        s1 == ConjugateGradient_transition(s0, tuple)
        s2 == Loss_transition("LinearSVM", s1, tuple)
    IN  numRows_incr(s2)

linear_svm_cg_transition(state, tuple, previous, dimension) ==
    LET s0 == IF state.algo.numRows = 0
              THEN linear_svm_cg_init(previous, dimension)
              ELSE state
        s1 == ConjugateGradient_transition(s0, tuple)
        s2 == Loss_transition("LinearSVM", s1, tuple)
    IN  numRows_incr(s2)

\* variant: the loss of the right-hand state is not added
linear_svm_cg_merge_lossDropped(stateLeft, stateRight) ==
    IF stateLeft.algo.numRows = 0 THEN stateRight
    ELSE IF stateRight.algo.numRows = 0 THEN stateLeft
    ELSE numRows_add(ConjugateGradient_merge(stateLeft, stateRight),
                     stateRight)

linear_svm_cg_merge(stateLeft, stateRight) ==
    IF stateLeft.algo.numRows = 0 THEN stateRight
    ELSE IF stateRight.algo.numRows = 0 THEN stateLeft
    ELSE numRows_add(Loss_merge(ConjugateGradient_merge(stateLeft, stateRight),
                                stateRight),
                     stateRight)

\* variant: an empty state is finalized like any other
linear_svm_cg_final_noTest(state) ==
    [ConjugateGradient_final(state) EXCEPT !.task.iteration = @ + 1]

\* variant: the final function steps the model along the new direction
linear_svm_cg_final_stepsModel(state) ==
    IF state.algo.numRows = 0 THEN Null
    ELSE LET s1 == ConjugateGradient_final(state)
         IN  [s1 EXCEPT !.task.iteration = @ + 1,
                        !.task.model = VAdd(@, s1.task.direction)]

\* variant: the final function leaves the iteration counter alone
linear_svm_cg_final_sameIteration(state) ==
    IF state.algo.numRows = 0 THEN Null
    ELSE ConjugateGradient_final(state)

linear_svm_cg_final(state) ==
    IF state.algo.numRows = 0 THEN Null
    ELSE [ConjugateGradient_final(state) EXCEPT !.task.iteration = @ + 1]

\* linear_svm_cg_direction: the search direction of a finalized state
linear_svm_cg_direction(state) == state.task.direction

\* variant: the model is replaced by the step, not moved by it
linear_svm_cg_update_replaced(state, direction, dimension, stepsize) ==
    LET s0 == IF state.task.dimension = 0
              THEN GLMCGState_allocate(dimension)
              ELSE state
    IN  [s0 EXCEPT !.task.model = VScale(stepsize, direction)]

\* state.task.model += stepsize * direction, on zeros of the given dimension
\* when the state has none
linear_svm_cg_update(state, direction, dimension, stepsize) ==
    LET s0 == IF state.task.dimension = 0
              THEN GLMCGState_allocate(dimension)
              ELSE state
    IN  [s0 EXCEPT !.task.model = VAdd(@, VScale(stepsize, direction))]

(* ------------------------------------------------------------------ *)
(* the distance functions                                              *)
(* ------------------------------------------------------------------ *)

\* std::abs((stateLeft.algo.loss - stateRight.algo.loss) / stateRight.algo.loss)
\* divisor: the value the one division of the expression divides by
loss_distance(stateLeft, stateRight) ==
    [value |-> FAbs(FDiv(FSub(stateLeft.algo.loss, stateRight.algo.loss),
                         stateRight.algo.loss)),
     divisor |-> stateRight.algo.loss]

\* variant: the ratio of the two losses, not of their difference
internal_linear_svm_igd_distance_ratio(stateLeft, stateRight) ==
    [value |-> FAbs(FDiv(stateLeft.algo.loss, stateRight.algo.loss)),
     divisor |-> stateRight.algo.loss]

internal_linear_svm_igd_distance(stateLeft, stateRight) ==
    loss_distance(stateLeft, stateRight)

internal_linear_svm_cg_distance(stateLeft, stateRight) ==
    loss_distance(stateLeft, stateRight)

internal_logit_igd_distance(stateLeft, stateRight) ==
    loss_distance(stateLeft, stateRight)

(* ------------------------------------------------------------------ *)
(* type/state.hpp: GLMBestBallState; linear_svm_loss.cpp: best ball    *)
(* ------------------------------------------------------------------ *)

GLMBestBallState_initcond ==
    [dimension |-> 0, numRows |-> 0, loss_list |-> << >>]

\* state.allocate(*this, n): n zeroed losses
GLMBestBallState_allocate(n) ==
    [dimension |-> n, numRows |-> 0, loss_list |-> ZeroVector(n)]

GLMBestBallState_reset(state) ==
    [state EXCEPT !.numRows = 0, !.loss_list = ZeroVector(state.dimension)]

\* the loop over the candidates: candidate i's loss on the tuple is added to
\* loss_list(i), the candidates counted by the state's dimension; stepsizes
\* holds what the loop reads as stepsizes(i), for every i it reads
RECURSIVE best_ball_loop(_, _, _, _, _, _)
best_ball_loop(loss_list, i, tuple, model, direction, stepsizes) ==
    IF i > Len(loss_list) THEN loss_list
    ELSE LET model_to_try == VAdd(model, VScale(stepsizes[i], direction))
             l == LinearSVM_loss(model_to_try, tuple.indVar, tuple.depVar)
         IN  best_ball_loop([loss_list EXCEPT ![i] = FAdd(@, l)], i + 1,
                            tuple, model, direction, stepsizes)

linear_svm_best_ball_transition(state, tuple, model, direction, stepsizes) ==
    LET s0 == IF state.numRows = 0
              THEN GLMBestBallState_reset(
                       GLMBestBallState_allocate(Len(stepsizes)))
              ELSE state
        loss_list == best_ball_loop(s0.loss_list, 1, tuple, model, direction,
                                    stepsizes)
    IN  [s0 EXCEPT !.loss_list = loss_list, !.numRows = @ + 1]

\* variant: the loss list of the right-hand state is not added
linear_svm_best_ball_merge_listDropped(stateLeft, stateRight) ==
    IF stateLeft.numRows = 0 THEN stateRight
    ELSE IF stateRight.numRows = 0 THEN stateLeft
    ELSE [stateLeft EXCEPT !.numRows = @ + stateRight.numRows]

linear_svm_best_ball_merge(stateLeft, stateRight) ==
    IF stateLeft.numRows = 0 THEN stateRight
    ELSE IF stateRight.numRows = 0 THEN stateLeft
    ELSE [stateLeft EXCEPT
            !.loss_list = VAdd(@, stateRight.loss_list),
            !.numRows = @ + stateRight.numRows]

\* no test of numRows: the loss list is returned as it stands
linear_svm_best_ball_final(state) == AnyType(state.loss_list)

\* variant: a score of zero is classified true
linear_svm_predict_orEqual(model, indVar) ==
    LET p == LinearSVM_predict(model, indVar)
    IN  ~FLess(p, Zero)

\* linear_svm_predict: p > 0.
linear_svm_predict(model, indVar) ==
    LET p == LinearSVM_predict(model, indVar)
    IN  FGreater(p, Zero)

\* logit_igd.cpp, logit_igd_predict: p > 0.5
logit_igd_predict(model, indVar) ==
    LET p == Logit_predict(model, indVar)
    IN  FGreater(p, Half)

\* the loop of linear_svm_greedy_step_size from candidate i on (i counts
\* from 0): mini and min are the candidate kept so far and its loss
RECURSIVE greedy_loop(_, _, _, _, _)
greedy_loop(loss_list, stepsizes, i, mini, min) ==
    IF i >= Len(stepsizes) THEN stepsizes[mini + 1]
    ELSE IF FGreater(min, loss_list[i + 1])
         THEN greedy_loop(loss_list, stepsizes, i + 1, i, loss_list[i + 1])
         ELSE greedy_loop(loss_list, stepsizes, i + 1, mini, min)

\* variant: a later candidate of equal loss replaces the one kept
RECURSIVE greedy_loop_lastMin(_, _, _, _, _)
greedy_loop_lastMin(loss_list, stepsizes, i, mini, min) ==
    IF i >= Len(stepsizes) THEN stepsizes[mini + 1]
    ELSE IF ~FLess(min, loss_list[i + 1])
         THEN greedy_loop_lastMin(loss_list, stepsizes, i + 1, i,
                                  loss_list[i + 1])
         ELSE greedy_loop_lastMin(loss_list, stepsizes, i + 1, mini, min)

linear_svm_greedy_step_size_lastMin(loss_list, stepsizes) ==
    greedy_loop_lastMin(loss_list, stepsizes, 1, 0, loss_list[1])

\* variant: the candidate of the largest loss is kept
RECURSIVE greedy_loop_max(_, _, _, _, _)
greedy_loop_max(loss_list, stepsizes, i, mini, min) ==
    IF i >= Len(stepsizes) THEN stepsizes[mini + 1]
    ELSE IF FLess(min, loss_list[i + 1])
         THEN greedy_loop_max(loss_list, stepsizes, i + 1, i,
                              loss_list[i + 1])
         ELSE greedy_loop_max(loss_list, stepsizes, i + 1, mini, min)

linear_svm_greedy_step_size_max(loss_list, stepsizes) ==
    greedy_loop_max(loss_list, stepsizes, 1, 0, loss_list[1])

\* min = loss_list(0), mini = 0, then the loop from candidate 1; loss_list
\* holds what the function reads as loss_list(i), for every i it reads
linear_svm_greedy_step_size(loss_list, stepsizes) ==
    greedy_loop(loss_list, stepsizes, 1, 0, loss_list[1])

(* ------------------------------------------------------------------ *)
(* type/state.hpp: GLMIGDBBState, GLMLossBBState: records of a flat    *)
(* array of doubles, addressed by offset (offsets count from 0)        *)
(* ------------------------------------------------------------------ *)

Cell(storage, off) == storage[off + 1]

SubVec(storage, off, n) == [k \in 1..n |-> storage[off + k]]

SetCell(storage, off, v) == [storage EXCEPT ![off + 1] = v]

SetVec(storage, off, vec) ==
    [k \in 1..Len(storage) |->
        IF k - 1 >= off /\ k - 1 < off + Len(vec)
        THEN vec[k - off] ELSE storage[k]]

ZeroArray(n) == [k \in 1..n |-> Zero]

\* a double cell read as an unsigned integer
ToUInt(v) == v[1] \div v[2]

\* INITCOND of the step-size-search aggregates
BBStorage_initcond == <<Zero>>

\* [dimension][stepsize][model: D][loss][incrModel: D][numRows]
GLMIGDBBState_arraySize(dimension) == 4 + 2 * dimension

\* [dimension][stepsize][model: D][loss][numRows]
GLMLossBBState_arraySize(dimension) == 4 + dimension

\* GLMIGDBBState(&storage[base], dimension), GLMLossBBState(...): the record
\* at base is bound and its leading cell holds the dimension
BBState_bind(storage, base, dimension) ==
    SetCell(storage, base, FromInt(dimension))

BB_stepsize(base) == base + 1

BB_model(base) == base + 2

BB_loss(base, dimension) == base + 2 + dimension

IGDBB_incrModel(base, dimension) == base + 3 + dimension

IGDBB_numRows(base, dimension) == base + 3 + 2 * dimension

(* ------------------------------------------------------------------ *)
(* linear_svm_igd.cpp: linear_svm_igd_bb_transition / _final           *)
(* ------------------------------------------------------------------ *)

\* variant: with a previous model the leading cell of the record is left 0
igd_bb_init_record_unmarked(storage, base, previous, dimension, stepsize) ==
    IF previous # Null
    THEN SetVec(SetCell(SetVec(storage, BB_model(base), previous.value),
                        BB_stepsize(base), stepsize),
                IGDBB_incrModel(base, dimension), previous.value)
    ELSE SetCell(SetCell(storage, base, FromInt(dimension)),
                 BB_stepsize(base), stepsize)

\* the branch taken on an empty buffer, for the record at base
igd_bb_init_record(storage, base, previous, dimension, stepsize) ==
    LET s0 == BBState_bind(storage, base, dimension)
    IN  IF previous # Null
        THEN SetVec(SetCell(SetVec(s0, BB_model(base), previous.value),
                            BB_stepsize(base), stepsize),
                    IGDBB_incrModel(base, dimension), previous.value)
        ELSE SetCell(SetCell(s0, base, FromInt(dimension)),
                     BB_stepsize(base), stepsize)

\* variant: every record steps with the stepsize of the first record
igd_bb_step_record_firstStepsize(storage, base, dimension, tuple) ==
    LET incr == SubVec(storage, IGDBB_incrModel(base, dimension), dimension)
        step == LinearSVM_gradientInPlace(incr, tuple.indVar, tuple.depVar,
                                          Cell(storage, BB_stepsize(0)))
        s1 == SetVec(storage, IGDBB_incrModel(base, dimension), step)
    IN  SetCell(s1, IGDBB_numRows(base, dimension),
                FAdd(Cell(s1, IGDBB_numRows(base, dimension)), One))

\* IGD::transition on the record at base, then numRows ++
igd_bb_step_record(storage, base, dimension, tuple) ==
    LET incr == SubVec(storage, IGDBB_incrModel(base, dimension), dimension)
        step == LinearSVM_gradientInPlace(incr, tuple.indVar, tuple.depVar,
                                          Cell(storage, BB_stepsize(base)))
        s1 == SetVec(storage, IGDBB_incrModel(base, dimension), step)
    IN  SetCell(s1, IGDBB_numRows(base, dimension),
                FAdd(Cell(s1, IGDBB_numRows(base, dimension)), One))

RECURSIVE igd_bb_init_loop(_, _, _, _, _, _)
igd_bb_init_loop(storage, i, arraySize, previous, dimension, stepsizes) ==
    IF i >= Len(stepsizes) THEN storage
    ELSE igd_bb_init_loop(
             igd_bb_init_record(storage, i * arraySize, previous, dimension,
                                stepsizes[i + 1]),
             i + 1, arraySize, previous, dimension, stepsizes)

RECURSIVE igd_bb_bind_loop(_, _, _, _, _)
igd_bb_bind_loop(storage, i, arraySize, dimension, n) ==
    IF i >= n THEN storage
    ELSE igd_bb_bind_loop(BBState_bind(storage, i * arraySize, dimension),
                          i + 1, arraySize, dimension, n)

RECURSIVE igd_bb_step_loop(_, _, _, _, _, _)
igd_bb_step_loop(storage, i, arraySize, dimension, tuple, n) ==
    IF i >= n THEN storage
    ELSE igd_bb_step_loop(
             igd_bb_step_record(storage, i * arraySize, dimension, tuple),
             i + 1, arraySize, dimension, tuple, n)

linear_svm_igd_bb_transition(storage, tuple, previous, dimension, stepsizes) ==
    LET arraySize == GLMIGDBBState_arraySize(dimension) + 1
        s0 == IF Cell(storage, 0) = Zero
              THEN igd_bb_init_loop(ZeroArray(arraySize * Len(stepsizes)), 0,
                                    arraySize, previous, dimension, stepsizes)
              ELSE igd_bb_bind_loop(storage, 0, arraySize, dimension,
                                    Len(stepsizes))
    IN  igd_bb_step_loop(s0, 0, arraySize, dimension, tuple, Len(stepsizes))

\* the record at base is finalized (its incremental model becomes its model)
\* and its model and stepsize go to the loss record at loss_base
igd_bb_final_record(storage, loss_storage, base, loss_base, dimension) ==
    LET model == SubVec(storage, IGDBB_incrModel(base, dimension), dimension)
        l0 == BBState_bind(loss_storage, loss_base, dimension)
    IN  SetCell(SetVec(l0, BB_model(loss_base), model),
                BB_stepsize(loss_base), Cell(storage, BB_stepsize(base)))

RECURSIVE igd_bb_final_loop(_, _, _, _, _, _, _)
igd_bb_final_loop(storage, loss_storage, i, arraySize, loss_arraySize, dimension, n) ==
    IF i >= n THEN loss_storage
    ELSE igd_bb_final_loop(
             storage,
             igd_bb_final_record(storage, loss_storage, i * arraySize,
                                 i * loss_arraySize, dimension),
             i + 1, arraySize, loss_arraySize, dimension, n)

linear_svm_igd_bb_final(storage) ==
    IF Cell(storage, 0) = Zero THEN Null
    ELSE LET dimension == ToUInt(Cell(storage, 0))
             arraySize == GLMIGDBBState_arraySize(dimension) + 1
             numOfStepsizes == Len(storage) \div arraySize
             loss_arraySize == GLMLossBBState_arraySize(dimension) + 1
         IN  AnyType(igd_bb_final_loop(
                         storage, ZeroArray(loss_arraySize * numOfStepsizes),
                         0, arraySize, loss_arraySize, dimension,
                         numOfStepsizes))

(* ------------------------------------------------------------------ *)
(* linear_svm_loss.cpp: linear_svm_loss_bb_transition / _final         *)
(* ------------------------------------------------------------------ *)

loss_bb_step_record(storage, base, dimension, tuple) ==
    LET loss == LinearSVM_loss(SubVec(storage, BB_model(base), dimension),
                               tuple.indVar, tuple.depVar)
    IN  SetCell(storage, BB_loss(base, dimension),
                FAdd(Cell(storage, BB_loss(base, dimension)), loss))

RECURSIVE loss_bb_step_loop(_, _, _, _, _, _)
loss_bb_step_loop(storage, i, arraySize, dimension, tuple, n) ==
    IF i >= n THEN storage
    ELSE loss_bb_step_loop(
             loss_bb_step_record(
                 BBState_bind(storage, i * arraySize, dimension),
                 i * arraySize, dimension, tuple),
             i + 1, arraySize, dimension, tuple, n)

linear_svm_loss_bb_transition(storage, tuple, start) ==
    LET s0 == IF Cell(storage, 0) = Zero THEN start.value ELSE storage
        dimension == ToUInt(Cell(s0, 0))
        arraySize == GLMLossBBState_arraySize(dimension) + 1
        numOfStepsizes == Len(s0) \div arraySize
    IN  loss_bb_step_loop(s0, 0, arraySize, dimension, tuple, numOfStepsizes)

\* the first record whose loss is below every earlier one
RECURSIVE loss_bb_min(_, _, _, _, _, _, _)
loss_bb_min(storage, i, arraySize, dimension, n, min_i, min) ==
    IF i >= n THEN [min_i |-> min_i, min |-> min]
    ELSE LET loss == Cell(storage, BB_loss(i * arraySize, dimension))
         IN  IF min_i < 0 \/ FGreater(min, loss)
             THEN loss_bb_min(storage, i + 1, arraySize, dimension, n, i, loss)
             ELSE loss_bb_min(storage, i + 1, arraySize, dimension, n,
                              min_i, min)

linear_svm_loss_bb_final(storage) ==
    IF Cell(storage, 0) = Zero THEN Null
    ELSE LET dimension == ToUInt(Cell(storage, 0))
             arraySize == GLMLossBBState_arraySize(dimension) + 1
             numOfStepsizes == Len(storage) \div arraySize
             m == loss_bb_min(storage, 0, arraySize, dimension,
                              numOfStepsizes, -1, Zero)
         IN  [model |-> SubVec(storage, BB_model(m.min_i * arraySize),
                               dimension),
              loss |-> m.min]

(* ------------------------------------------------------------------ *)
(* One pass of one aggregate over partitioned tuples, and the          *)
(* comparison of its result with the result of the pass before         *)
(* ------------------------------------------------------------------ *)

VARIABLES
    algo,     \* the aggregate this pass runs
    args,     \* the arguments every transition call of the pass is given
    st,       \* st[w]: the transition state of worker w
    live,     \* workers whose state has not been merged into another one
    rows,     \* tuples folded so far in this pass, over all workers
    phase,    \* "accumulating" | "finalized"
    fin,      \* what the final function of this pass returned
    last,     \* the last call: function, arguments, result
    lossSum,  \* observer: the losses of the folded tuples at the pass's model
              \* (best ball: at each candidate model and at the model itself;
              \* step-size search: one IGD aggregate per candidate stepsize,
              \* fed the same tuples)
    it        \* the iteration controller of the driver function; it.seeds
              \* observes the state each pass was given, it.distance the
              \* distance the last test evaluated

vars == <<algo, args, st, live, rows, phase, fin, last, lossSum, it>>

Workers == 1..NumWorkers

Ones(d) == [i \in 1..d |-> One]

\* lists of candidate stepsizes (args[5] of the step-size search)
CandidateLists == { <<Half, One>>, <<Zero, Half, One>> }

MergeAlgos == {"linear_svm_igd", "logit_igd", "linear_svm_cg",
               "linear_svm_best_ball"}

Algos == MergeAlgos \cup {"linear_svm_igd_bb", "linear_svm_loss_bb"}

\* What the pass before returned: nothing (the first pass of a run), or the
\* finalized state of a first pass over one tuple (for CG, with the model
\* moved along its direction by linear_svm_cg_update).
PreviousStates(a, d) ==
    IF a = "linear_svm_igd" THEN
        { linear_svm_igd_final(
              linear_svm_igd_transition(GLMIGDState_initcond, t, Null, d, s)) :
            t \in GLMTuples(d), s \in Stepsizes }
    ELSE IF a = "logit_igd" THEN
        { logit_igd_final(
              logit_igd_transition(GLMIGDState_initcond, t, Null, d, s)) :
            t \in GLMTuples(d), s \in Stepsizes }
    ELSE IF a = "linear_svm_cg" THEN
        { LET f == linear_svm_cg_final(
                       linear_svm_cg_transition(GLMCGState_initcond, t, Null,
                                                d))
          IN  IF f = Null THEN Null
              ELSE linear_svm_cg_update(f, linear_svm_cg_direction(f), d,
                                        One) :
            t \in GLMTuples(d) }
    ELSE IF a = "linear_svm_igd_bb" THEN
        { AnyType(Ones(d)) }
    ELSE {}

\* the buffers linear_svm_igd_bb_final returns after a pass over one tuple
StartBuffers(d) ==
    { linear_svm_igd_bb_final(
          linear_svm_igd_bb_transition(BBStorage_initcond, t, p, d, c)) :
        t \in GLMTuples(d), p \in {Null, AnyType(Ones(d))},
        c \in CandidateLists }

NoArgs ==
    [previous |-> Null, dimension |-> 0, stepsize |-> Zero, model |-> << >>,
     direction |-> << >>, stepsizes |-> << >>, start |-> Null]

\* the arguments of the pass
PassArgs(a) ==
    IF a \in {"linear_svm_igd", "logit_igd"} THEN
        { [NoArgs EXCEPT !.dimension = d, !.stepsize = s, !.previous = p] :
            d \in Dimensions, s \in Stepsizes,
            p \in UNION { {Null} \cup PreviousStates(a, dd) : dd \in Dimensions } }
    ELSE IF a = "linear_svm_cg" THEN
        { [NoArgs EXCEPT !.dimension = d, !.previous = p] :
            d \in Dimensions,
            p \in UNION { {Null} \cup PreviousStates(a, dd) : dd \in Dimensions } }
    ELSE IF a = "linear_svm_best_ball" THEN
        { [NoArgs EXCEPT !.dimension = d, !.model = ZeroVector(d),
                         !.direction = dir, !.stepsizes = c] :
            d \in Dimensions, dir \in {Ones(1), VScale(FNeg(One), Ones(2))},
            c \in CandidateLists }
    ELSE IF a = "linear_svm_igd_bb" THEN
        { [NoArgs EXCEPT !.dimension = d, !.previous = p, !.stepsizes = c] :
            d \in Dimensions,
            p \in UNION { {Null} \cup PreviousStates(a, dd) : dd \in Dimensions },
            c \in CandidateLists }
    ELSE
        UNION { { [NoArgs EXCEPT !.dimension = d, !.start = b] :
                    b \in StartBuffers(d) } : d \in Dimensions }

\* the direction and the previous model of a step-size search have the
\* dimension the call is given
ArgsOk(a, x) ==
    /\ x.direction = << >> \/ Len(x.direction) = x.dimension
    /\ x.previous = Null
       \/ a # "linear_svm_igd_bb"
       \/ Len(x.previous.value) = x.dimension

\* no driver function is running
NoController == [pc |-> "none"]

initcond(a) ==
    IF a \in {"linear_svm_igd", "logit_igd"} THEN GLMIGDState_initcond
    ELSE IF a = "linear_svm_cg" THEN GLMCGState_initcond
    ELSE IF a = "linear_svm_best_ball" THEN GLMBestBallState_initcond
    ELSE BBStorage_initcond

\* the step-size search over a buffer has no merge function: one stream
StartLive(a) == IF a \in MergeAlgos THEN Workers ELSE {1}

Init ==
    /\ algo \in Algos
    /\ args \in {x \in PassArgs(algo) : ArgsOk(algo, x)}
    /\ st = [w \in Workers |-> initcond(algo)]
    /\ live = StartLive(algo)
    /\ rows = 0
    /\ phase = "accumulating"
    /\ fin = Null
    /\ last = [op |-> "none"]
    /\ lossSum = IF algo = "linear_svm_best_ball"
                 THEN [list |-> ZeroVector(Len(args.stepsizes)),
                       base |-> Zero]
                 ELSE IF algo = "linear_svm_igd_bb"
                 THEN [i \in 1..Len(args.stepsizes) |-> GLMIGDState_initcond]
                 ELSE Zero
    /\ it = NoController

\* the width of the tuples of the pass: that of the model the pass works on
PassDimension ==
    IF algo \in {"linear_svm_igd", "logit_igd", "linear_svm_cg"}
       /\ args.previous # Null
    THEN args.previous.task.dimension
    ELSE args.dimension

\* the objective of an aggregate that keeps a loss at the pass's model
TaskOf(a) == IF a = "logit_igd" THEN "Logit" ELSE "LinearSVM"

\* the model a pass of an IGD or CG aggregate starts from
StartModel ==
    IF args.previous # Null THEN args.previous.task.model
    ELSE ZeroVector(args.dimension)

\* the loss of the tuple at the model moved by candidate stepsize i
CandidateLoss(i, tuple) ==
    LinearSVM_loss(VAdd(args.model, VScale(args.stepsizes[i], args.direction)),
                   tuple.indVar, tuple.depVar)

\* the previous model of a step-size search as the state of an IGD aggregate
PreviousAsState ==
    IF args.previous = Null THEN Null
    ELSE [GLMIGDState_allocate(args.dimension) EXCEPT
             !.task.model = args.previous.value]

\* one IGD aggregate of its own, run with candidate stepsize i on the tuples
\* of the step-size search
SingleAccumulator(state, tuple, i) ==
    linear_svm_igd_transition(state, tuple, PreviousAsState, args.dimension,
                              args.stepsizes[i])

\* worker w's state becomes out after a call of transition function op
Fold(op, w, tuple, out) ==
    /\ st' = [st EXCEPT ![w] = out]
    /\ rows' = rows + 1
    /\ last' = [op |-> op, pre |-> st[w], arg |-> tuple, out |-> out]
    /\ lossSum' = IF algo \in {"linear_svm_igd", "logit_igd", "linear_svm_cg"}
                  THEN FAdd(lossSum, Task_loss(TaskOf(algo), StartModel,
                                               tuple.indVar, tuple.depVar))
                  ELSE IF algo = "linear_svm_best_ball"
                  THEN [list |-> [i \in 1..Len(args.stepsizes) |->
                                     FAdd(lossSum.list[i],
                                          CandidateLoss(i, tuple))],
                        base |-> FAdd(lossSum.base,
                                      LinearSVM_loss(args.model, tuple.indVar,
                                                     tuple.depVar))]
                  ELSE IF algo = "linear_svm_igd_bb"
                  THEN [i \in 1..Len(args.stepsizes) |->
                           SingleAccumulator(lossSum[i], tuple, i)]
                  ELSE lossSum
    /\ UNCHANGED <<algo, args, live, phase, fin, it>>

CanFold(a, w) ==
    /\ algo = a
    /\ phase = "accumulating"
    /\ w \in live
    /\ rows < MaxRows

Transition_linear_svm_igd ==
    \E w \in Workers, tuple \in GLMTuples(PassDimension) :
        /\ CanFold("linear_svm_igd", w)
        /\ Fold("linear_svm_igd_transition", w, tuple,
                linear_svm_igd_transition(st[w], tuple, args.previous,
                                          args.dimension, args.stepsize))

Transition_logit_igd ==
    \E w \in Workers, tuple \in GLMTuples(PassDimension) :
        /\ CanFold("logit_igd", w)
        /\ Fold("logit_igd_transition", w, tuple,
                logit_igd_transition(st[w], tuple, args.previous,
                                     args.dimension, args.stepsize))

Transition_linear_svm_cg ==
    \E w \in Workers, tuple \in GLMTuples(PassDimension) :
        /\ CanFold("linear_svm_cg", w)
        /\ Fold("linear_svm_cg_transition", w, tuple,
                linear_svm_cg_transition(st[w], tuple, args.previous,
                                         args.dimension))

Transition_linear_svm_best_ball ==
    \E w \in Workers, tuple \in GLMTuples(PassDimension) :
        /\ CanFold("linear_svm_best_ball", w)
        /\ Fold("linear_svm_best_ball_transition", w, tuple,
                linear_svm_best_ball_transition(st[w], tuple, args.model,
                                                args.direction,
                                                args.stepsizes))

Transition_linear_svm_igd_bb ==
    \E w \in Workers, tuple \in GLMTuples(PassDimension) :
        /\ CanFold("linear_svm_igd_bb", w)
        /\ Fold("linear_svm_igd_bb_transition", w, tuple,
                linear_svm_igd_bb_transition(st[w], tuple, args.previous,
                                             args.dimension, args.stepsizes))

Transition_linear_svm_loss_bb ==
    \E w \in Workers, tuple \in GLMTuples(PassDimension) :
        /\ CanFold("linear_svm_loss_bb", w)
        /\ Fold("linear_svm_loss_bb_transition", w, tuple,
                linear_svm_loss_bb_transition(st[w], tuple, args.start))

\* the state of worker j is merged into the state of worker i
Merged(op, i, j, out) ==
    /\ st' = [st EXCEPT ![i] = out]
    /\ live' = live \ {j}
    /\ last' = [op |-> op, pre |-> st[i], arg |-> st[j], out |-> out]
    /\ UNCHANGED <<algo, args, rows, phase, fin, lossSum, it>>

CanMerge(a, i, j) ==
    /\ algo = a
    /\ phase = "accumulating"
    /\ i \in live /\ j \in live /\ i # j

Merge_linear_svm_igd ==
    \E i \in Workers, j \in Workers :
        /\ CanMerge("linear_svm_igd", i, j)
        /\ Merged("linear_svm_igd_merge", i, j,
                  linear_svm_igd_merge(st[i], st[j]))

Merge_logit_igd ==
    \E i \in Workers, j \in Workers :
        /\ CanMerge("logit_igd", i, j)
        /\ Merged("logit_igd_merge", i, j, logit_igd_merge(st[i], st[j]))

Merge_linear_svm_cg ==
    \E i \in Workers, j \in Workers :
        /\ CanMerge("linear_svm_cg", i, j)
        /\ Merged("linear_svm_cg_merge", i, j,
                  linear_svm_cg_merge(st[i], st[j]))

Merge_linear_svm_best_ball ==
    \E i \in Workers, j \in Workers :
        /\ CanMerge("linear_svm_best_ball", i, j)
        /\ Merged("linear_svm_best_ball_merge", i, j,
                  linear_svm_best_ball_merge(st[i], st[j]))

\* the final function is called on the one state left
Finalized(op, w, out) ==
    /\ fin' = out
    /\ phase' = "finalized"
    /\ last' = [op |-> op, pre |-> st[w], arg |-> Null, out |-> out]
    /\ UNCHANGED <<algo, args, st, live, rows, lossSum, it>>

CanFinal(a, w) ==
    /\ algo = a
    /\ phase = "accumulating"
    /\ live = {w}

Final_linear_svm_igd ==
    \E w \in Workers :
        /\ CanFinal("linear_svm_igd", w)
        /\ Finalized("linear_svm_igd_final", w, linear_svm_igd_final(st[w]))

Final_logit_igd ==
    \E w \in Workers :
        /\ CanFinal("logit_igd", w)
        /\ Finalized("logit_igd_final", w, logit_igd_final(st[w]))

Final_linear_svm_cg ==
    \E w \in Workers :
        /\ CanFinal("linear_svm_cg", w)
        /\ Finalized("linear_svm_cg_final", w, linear_svm_cg_final(st[w]))

Final_linear_svm_best_ball ==
    \E w \in Workers :
        /\ CanFinal("linear_svm_best_ball", w)
        /\ Finalized("linear_svm_best_ball_final", w,
                     linear_svm_best_ball_final(st[w]))

Final_linear_svm_igd_bb ==
    \E w \in Workers :
        /\ CanFinal("linear_svm_igd_bb", w)
        /\ Finalized("linear_svm_igd_bb_final", w,
                     linear_svm_igd_bb_final(st[w]))

Final_linear_svm_loss_bb ==
    \E w \in Workers :
        /\ CanFinal("linear_svm_loss_bb", w)
        /\ Finalized("linear_svm_loss_bb_final", w,
                     linear_svm_loss_bb_final(st[w]))

\* the finalized states the driver holds
Stored == {fin, args.previous} \ {Null}

Measured(op, stateLeft, stateRight, out) ==
    /\ last' = [op |-> op, pre |-> stateLeft, arg |-> stateRight,
                out |-> out]
    /\ UNCHANGED <<algo, args, st, live, rows, phase, fin, lossSum, it>>

Distance_linear_svm_igd ==
    \E stateLeft \in Stored, stateRight \in Stored :
        /\ algo = "linear_svm_igd" /\ phase = "finalized"
        /\ Measured("internal_linear_svm_igd_distance", stateLeft, stateRight,
                    internal_linear_svm_igd_distance(stateLeft, stateRight))

Distance_linear_svm_cg ==
    \E stateLeft \in Stored, stateRight \in Stored :
        /\ algo = "linear_svm_cg" /\ phase = "finalized"
        /\ Measured("internal_linear_svm_cg_distance", stateLeft, stateRight,
                    internal_linear_svm_cg_distance(stateLeft, stateRight))

Distance_logit_igd ==
    \E stateLeft \in Stored, stateRight \in Stored :
        /\ algo = "logit_igd" /\ phase = "finalized"
        /\ Measured("internal_logit_igd_distance", stateLeft, stateRight,
                    internal_logit_igd_distance(stateLeft, stateRight))

\* the final function is called once more, on the state it returned
Refinal_linear_svm_igd ==
    /\ algo = "linear_svm_igd" /\ phase = "finalized" /\ fin # Null
    /\ Measured("linear_svm_igd_final", fin, Null, linear_svm_igd_final(fin))

Refinal_logit_igd ==
    /\ algo = "logit_igd" /\ phase = "finalized" /\ fin # Null
    /\ Measured("logit_igd_final", fin, Null, logit_igd_final(fin))

Refinal_linear_svm_cg ==
    /\ algo = "linear_svm_cg" /\ phase = "finalized" /\ fin # Null
    /\ Measured("linear_svm_cg_final", fin, Null, linear_svm_cg_final(fin))

\* an example is classified by the model the pass returned
Predict_linear_svm ==
    /\ algo \in {"linear_svm_igd", "linear_svm_cg"}
    /\ phase = "finalized" /\ fin # Null
    /\ \E indVar \in IndVars(Len(fin.task.model)) :
           Measured("linear_svm_predict", fin.task.model, indVar,
                    linear_svm_predict(fin.task.model, indVar))

Predict_logit_igd ==
    /\ algo = "logit_igd" /\ phase = "finalized" /\ fin # Null
    /\ \E indVar \in IndVars(Len(fin.task.model)) :
           Measured("logit_igd_predict", fin.task.model, indVar,
                    logit_igd_predict(fin.task.model, indVar))

\* the stepsize is chosen from the loss list the pass returned.  The loop
\* reads loss_list(0) and loss_list(i) for every candidate i; for a list
\* shorter than the candidate list (the empty list of a pass over no rows)
\* these are reads outside the list: undefined behaviour.  The read yields
\* whatever the cells behind the list hold (beyond), and the candidate kept
\* is the one the loop finds on the losses it read; or the call ends the
\* query (asserts): an exception in a build whose element access is
\* checked, the process killed by the signal when the cell is not mapped
Greedy_linear_svm_best_ball ==
    /\ algo = "linear_svm_best_ball" /\ phase = "finalized"
    /\ \E asserts \in BOOLEAN :
         \E beyond \in BeyondLists(Len(args.stepsizes) - Len(fin.value)) :
           LET loss_list == fin.value
               inBounds == Len(loss_list) >= Len(args.stepsizes)
               read == loss_list \o beyond
           IN  /\ inBounds => ~asserts
               /\ asserts => beyond \in [1..Len(beyond) -> {Zero}]
               /\ Measured("linear_svm_greedy_step_size",
                           [loss_list |-> loss_list, inBounds |-> inBounds,
                            read |-> IF asserts THEN loss_list ELSE read],
                           args.stepsizes,
                           IF asserts THEN Raised
                           ELSE linear_svm_greedy_step_size(read,
                                                            args.stepsizes))

\* the model of a finalized CG state, or of a state not yet initialized, is
\* moved along a direction: the state's own, or a vector of some width.  A
\* direction of another length than the model is read over the cells of the
\* model: the call returns the state computed from the cells read (beyond:
\* the cells behind a shorter direction), or it ends the query (asserts)
Update_linear_svm_cg ==
    \E state \in {fin, GLMCGState_initcond} \ {Null}, stepsize \in Stepsizes :
        /\ algo = "linear_svm_cg" /\ phase = "finalized"
        /\ \E direction \in
                 {IF state.task.dimension = 0 THEN Ones(args.dimension)
                  ELSE linear_svm_cg_direction(state)}
                 \cup {Ones(d) : d \in Dimensions} :
             LET D == IF state.task.dimension = 0 THEN args.dimension
                      ELSE Len(state.task.model)
                 n == Len(direction)
             IN  \E asserts \in IF n = D THEN {FALSE} ELSE BOOLEAN :
                   \E beyond \in IF asserts THEN { << >> }
                                  ELSE ReadLists(D - n) :
                     Measured("linear_svm_cg_update", state,
                              [direction |-> direction,
                               dimension |-> args.dimension,
                               stepsize |-> stepsize],
                              IF asserts THEN Raised
                              ELSE linear_svm_cg_update(
                                       state, ReadAs(direction, D, beyond),
                                       args.dimension, stepsize))

Next ==
    \/ Transition_linear_svm_igd
    \/ Transition_logit_igd
    \/ Transition_linear_svm_cg
    \/ Transition_linear_svm_best_ball
    \/ Transition_linear_svm_igd_bb
    \/ Transition_linear_svm_loss_bb
    \/ Merge_linear_svm_igd
    \/ Merge_logit_igd
    \/ Merge_linear_svm_cg
    \/ Merge_linear_svm_best_ball
    \/ Final_linear_svm_igd
    \/ Final_logit_igd
    \/ Final_linear_svm_cg
    \/ Final_linear_svm_best_ball
    \/ Final_linear_svm_igd_bb
    \/ Final_linear_svm_loss_bb
    \/ Distance_linear_svm_igd
    \/ Distance_linear_svm_cg
    \/ Distance_logit_igd
    \/ Update_linear_svm_cg
    \/ Refinal_linear_svm_igd
    \/ Refinal_logit_igd
    \/ Refinal_linear_svm_cg
    \/ Greedy_linear_svm_best_ball
    \/ Predict_linear_svm
    \/ Predict_logit_igd

Spec == Init /\ [][Next]_vars

(* ------------------------------------------------------------------ *)
(* Three partial states of one pass and the groupings in which the     *)
(* executor may merge them                                             *)
(* ------------------------------------------------------------------ *)

\* the partial states A, B, C
Partials == {1, 2, 3}

InitGroupings ==
    /\ algo \in MergeAlgos
    /\ args \in {x \in PassArgs(algo) : ArgsOk(algo, x)}
    /\ st = [w \in Partials |-> initcond(algo)]
    /\ live = Partials
    /\ rows = 0
    /\ phase = "accumulating"
    /\ fin = Null
    /\ last = [op |-> "none"]
    /\ lossSum = Zero
    /\ it = NoController

\* a tuple is folded into one of the partial states
FoldPartial(a, w, out) ==
    /\ algo = a
    /\ phase = "accumulating"
    /\ rows < MaxRows
    /\ st' = [st EXCEPT ![w] = out]
    /\ rows' = rows + 1
    /\ UNCHANGED <<algo, args, live, phase, fin, last, lossSum, it>>

Partial_linear_svm_igd ==
    \E w \in Partials, tuple \in GLMTuples(PassDimension) :
        FoldPartial("linear_svm_igd", w,
                    linear_svm_igd_transition(st[w], tuple, args.previous,
                                              args.dimension, args.stepsize))

Partial_logit_igd ==
    \E w \in Partials, tuple \in GLMTuples(PassDimension) :
        FoldPartial("logit_igd", w,
                    logit_igd_transition(st[w], tuple, args.previous,
                                         args.dimension, args.stepsize))

Partial_linear_svm_cg ==
    \E w \in Partials, tuple \in GLMTuples(PassDimension) :
        FoldPartial("linear_svm_cg", w,
                    linear_svm_cg_transition(st[w], tuple, args.previous,
                                             args.dimension))

Partial_linear_svm_best_ball ==
    \E w \in Partials, tuple \in GLMTuples(PassDimension) :
        FoldPartial("linear_svm_best_ball", w,
                    linear_svm_best_ball_transition(st[w], tuple, args.model,
                                                    args.direction,
                                                    args.stepsizes))

\* the three partial states are merged in each grouping, the operand of a
\* merge being a partial state or the result of a merge, and the final
\* function is applied to the state the last merge returned
Grouped(a, AB, BA, BC, AC, AB_C, A_BC, AC_B, final) ==
    /\ algo = a
    /\ phase = "accumulating"
    /\ phase' = "merged"
    /\ last' = [op |-> "groupings", ab |-> AB, ba |-> BA, bc |-> BC,
                ac |-> AC, ab_c |-> AB_C, a_bc |-> A_BC, ac_b |-> AC_B,
                final |-> final]
    /\ UNCHANGED <<algo, args, st, live, rows, fin, lossSum, it>>

Groupings_linear_svm_igd ==
    LET AB == linear_svm_igd_merge(st[1], st[2])
        BC == linear_svm_igd_merge(st[2], st[3])
        AC == linear_svm_igd_merge(st[1], st[3])
        AB_C == linear_svm_igd_merge(AB, st[3])
    IN  Grouped("linear_svm_igd", AB, linear_svm_igd_merge(st[2], st[1]),
                BC, AC, AB_C, linear_svm_igd_merge(st[1], BC),
                linear_svm_igd_merge(AC, st[2]), linear_svm_igd_final(AB_C))

Groupings_logit_igd ==
    LET AB == logit_igd_merge(st[1], st[2])
        BC == logit_igd_merge(st[2], st[3])
        AC == logit_igd_merge(st[1], st[3])
        AB_C == logit_igd_merge(AB, st[3])
    IN  Grouped("logit_igd", AB, logit_igd_merge(st[2], st[1]),
                BC, AC, AB_C, logit_igd_merge(st[1], BC),
                logit_igd_merge(AC, st[2]), logit_igd_final(AB_C))

Groupings_linear_svm_cg ==
    LET AB == linear_svm_cg_merge(st[1], st[2])
        BC == linear_svm_cg_merge(st[2], st[3])
        AC == linear_svm_cg_merge(st[1], st[3])
        AB_C == linear_svm_cg_merge(AB, st[3])
    IN  Grouped("linear_svm_cg", AB, linear_svm_cg_merge(st[2], st[1]),
                BC, AC, AB_C, linear_svm_cg_merge(st[1], BC),
                linear_svm_cg_merge(AC, st[2]), linear_svm_cg_final(AB_C))

Groupings_linear_svm_best_ball ==
    LET AB == linear_svm_best_ball_merge(st[1], st[2])
        BC == linear_svm_best_ball_merge(st[2], st[3])
        AC == linear_svm_best_ball_merge(st[1], st[3])
        AB_C == linear_svm_best_ball_merge(AB, st[3])
    IN  Grouped("linear_svm_best_ball", AB,
                linear_svm_best_ball_merge(st[2], st[1]),
                BC, AC, AB_C, linear_svm_best_ball_merge(st[1], BC),
                linear_svm_best_ball_merge(AC, st[2]),
                linear_svm_best_ball_final(AB_C))

NextGroupings ==
    \/ Partial_linear_svm_igd
    \/ Partial_logit_igd
    \/ Partial_linear_svm_cg
    \/ Partial_linear_svm_best_ball
    \/ Groupings_linear_svm_igd
    \/ Groupings_logit_igd
    \/ Groupings_linear_svm_cg
    \/ Groupings_linear_svm_best_ball

SpecGroupings == InitGroupings /\ [][NextGroupings]_vars

(* ------------------------------------------------------------------ *)
(* A pass of a step-size search whose calls carry their own candidate  *)
(* lists: stepsizes is an argument of every transition call            *)
(* ------------------------------------------------------------------ *)

SearchAlgos == {"linear_svm_best_ball", "linear_svm_igd_bb"}

InitCandidates ==
    /\ algo \in SearchAlgos
    /\ args \in {x \in PassArgs(algo) : ArgsOk(algo, x)}
    /\ st = [w \in Workers |-> initcond(algo)]
    /\ live = StartLive(algo)
    /\ rows = 0
    /\ phase = "accumulating"
    /\ fin = Null
    /\ last = [op |-> "none"]
    /\ lossSum = Zero
    /\ it = NoController

\* the candidate lists a call on state may be given: the first call on a
\* state has the list of the pass
CallLists(first) == IF first THEN {args.stepsizes} ELSE CandidateLists

\* worker w's state becomes out after a transition call with list stepsizes;
\* inBounds: the call addressed no cell outside the arrays it was given
\* a call that throws ends the query and leaves the state as it was
FoldCandidates(op, w, tuple, stepsizes, inBounds, out) ==
    /\ phase = "accumulating"
    /\ w \in live
    /\ rows < MaxRows
    /\ IF out = Raised
       THEN phase' = "aborted" /\ UNCHANGED st
       ELSE st' = [st EXCEPT ![w] = out] /\ UNCHANGED phase
    /\ rows' = rows + 1
    /\ last' = [op |-> op, pre |-> st[w], out |-> out, inBounds |-> inBounds,
                arg |-> [tuple |-> tuple, stepsizes |-> stepsizes]]
    /\ UNCHANGED <<algo, args, live, fin, lossSum, it>>

\* the loop runs over state.dimension candidates; stepsizes(i) beyond the
\* end of a shorter list is a read outside the list: undefined behaviour,
\* which yields whatever the cell behind the list holds (beyond), the loss
\* at that step being added like any other, or ends the query (asserts): an
\* exception in a build whose element access is checked, the process killed
\* by the signal when the cell is not mapped
Candidates_linear_svm_best_ball ==
    /\ algo = "linear_svm_best_ball"
    /\ \E w \in Workers, tuple \in GLMTuples(PassDimension) :
         \E stepsizes \in CallLists(st[w].numRows = 0) :
           LET K == IF st[w].numRows = 0 THEN Len(stepsizes)
                    ELSE st[w].dimension
               inBounds == K <= Len(stepsizes)
           IN  \E asserts \in IF inBounds THEN {FALSE} ELSE BOOLEAN :
                 \E beyond \in IF inBounds \/ asserts THEN {Zero}
                                ELSE BeyondCells :
                   LET read == [i \in 1..K |->
                                   IF i <= Len(stepsizes) THEN stepsizes[i]
                                   ELSE beyond]
                   IN  FoldCandidates("linear_svm_best_ball_transition", w,
                                      tuple, stepsizes, inBounds,
                                      IF asserts THEN Raised
                                      ELSE linear_svm_best_ball_transition(
                                               st[w], tuple, args.model,
                                               args.direction, read))

\* the loops run over stepsizes.size() records; a record beyond the end of
\* the buffer is bound, read and written outside the buffer: undefined
\* behaviour.  Where the memory behind the buffer is mapped, the call returns
\* the buffer with its own cells as the records inside it were updated (the
\* cells written lie behind it); otherwise the call ends the query
\* (asserts): an exception in a build whose element access is checked
\* (storage[i * arraySize] with i * arraySize = storage.size()), the process
\* killed by the signal when the cell is not mapped
Candidates_linear_svm_igd_bb ==
    /\ algo = "linear_svm_igd_bb"
    /\ \E w \in Workers, tuple \in GLMTuples(PassDimension),
          asserts \in BOOLEAN :
         \E stepsizes \in CallLists(Cell(st[w], 0) = Zero) :
           LET arraySize == GLMIGDBBState_arraySize(args.dimension) + 1
               K == IF Cell(st[w], 0) = Zero THEN Len(stepsizes)
                    ELSE Len(st[w]) \div arraySize
               inBounds == Len(stepsizes) <= K
               inside == IF inBounds THEN stepsizes ELSE SubSeq(stepsizes, 1, K)
           IN  /\ (inBounds => ~asserts)
               /\ FoldCandidates("linear_svm_igd_bb_transition", w, tuple,
                                 stepsizes, inBounds,
                                 IF asserts THEN Raised
                                 ELSE linear_svm_igd_bb_transition(
                                          st[w], tuple, args.previous,
                                          args.dimension, inside))

NextCandidates ==
    \/ Candidates_linear_svm_best_ball
    \/ Candidates_linear_svm_igd_bb
    \/ Merge_linear_svm_best_ball

SpecCandidates == InitCandidates /\ [][NextCandidates]_vars

(* ------------------------------------------------------------------ *)
(* lasso_igd.py_in: compute_lasso_igd, the driver function.  The pass  *)
(* it runs in it.update is taken by its result, the state the final    *)
(* function returned or NULL.                                          *)
(* ------------------------------------------------------------------ *)

MaxIterations == 3

\* _args.num_iterations
NumIterations == 1..MaxIterations

\* _args.tolerance
Tolerances == {<<1, 10>>, Half}

\* what a pass can return: NULL, or a state of one of these losses
PassLosses == {Zero, One, <<3, 2>>}

PassResults == {Null} \cup { [algo |-> [loss |-> l]] : l \in PassLosses }

\* SELECT _state FROM rel_state WHERE _iteration = k: NULL without a row
StateOf(rel_state, k) ==
    IF k \in DOMAIN rel_state THEN rel_state[k] ELSE Null

\* internal_lasso_igd_distance is STRICT: NULL for a NULL argument
internal_lasso_igd_distance(stateLeft, stateRight) ==
    IF stateLeft = Null \/ stateRight = Null THEN Null
    ELSE AnyType(loss_distance(stateLeft, stateRight).value)

\* SQL's a < b on DOUBLE PRECISION: NULL for NULL, NaN is not below a number
SqlLess(a, b) ==
    IF a = Null THEN "null"
    ELSE IF ~IsNaN(a.value) /\ FLess(a.value, b) THEN "true"
    ELSE "false"

\* SQL's a OR b
SqlOr(a, b) ==
    IF a = "true" \/ b = "true" THEN "true"
    ELSE IF a = "null" \/ b = "null" THEN "null"
    ELSE "false"

\* the distance the condition of it.test evaluates
TestDistance(c) ==
    internal_lasso_igd_distance(StateOf(c.rel_state, c.iteration - 1),
                                StateOf(c.rel_state, c.iteration))

\* variant: the iteration count is not part of the condition
TestCondition_distanceOnly(c) ==
    SqlOr("false", SqlLess(TestDistance(c), c.args.tolerance))

\* the condition of it.test: {iteration} > _args.num_iterations OR
\* internal_lasso_igd_distance(state[iteration - 1], state[iteration])
\*     < _args.tolerance
TestCondition(c) ==
    SqlOr(IF c.iteration > c.args.num_iterations THEN "true" ELSE "false",
          SqlLess(TestDistance(c), c.args.tolerance))

\* variant: the loop is left when the count has reached num_iterations
TestCondition_reached(c) ==
    SqlOr(IF c.iteration >= c.args.num_iterations THEN "true" ELSE "false",
          SqlLess(TestDistance(c), c.args.tolerance))

\* it.test: the condition is true (NULL counts as not true)
IterationController_test(c) == TestCondition(c) = "true"

\* it.update: the pass reads the state stored under {iteration}; the count
\* is incremented and the result stored under the new count
IterationController_update(c, newState) ==
    [c EXCEPT !.iteration = @ + 1,
              !.rel_state = [k \in 1..(c.iteration + 1) |->
                                IF k <= c.iteration THEN c.rel_state[k]
                                ELSE newState],
              !.passes = @ + 1,
              !.pc = "test"]

\* variant: the pass is seeded with the state before the newest one
PassSeed_stale(c) == StateOf(c.rel_state, c.iteration - 1)

\* the state the pass of it.update is given: (SELECT _state FROM rel_state
\* WHERE _iteration = {iteration}), read before the count is incremented
PassSeed(c) == StateOf(c.rel_state, c.iteration)

\* with iterationCtrl as it: it.iteration = 0
InitDriver ==
    /\ algo = "lasso_igd"
    /\ args = NoArgs
    /\ st = [w \in Workers |-> Null]
    /\ live = {}
    /\ rows = 0
    /\ phase = "driver"
    /\ fin = Null
    /\ last = [op |-> "none"]
    /\ lossSum = Zero
    /\ \E n \in NumIterations, tol \in Tolerances :
           it = [pc |-> "update", iteration |-> 0, rel_state |-> << >>,
                 passes |-> 0, result |-> 0, seeds |-> << >>,
                 distance |-> Null,
                 args |-> [num_iterations |-> n, tolerance |-> tol]]

\* it.update(...): one aggregation pass (the count is capped at the largest
\* num_iterations: the test after a pass beyond it has left the loop)
Driver_update ==
    /\ it.pc = "update"
    /\ it.iteration <= MaxIterations
    /\ \E newState \in PassResults :
           it' = [IterationController_update(it, newState) EXCEPT
                     !.seeds = Append(@, PassSeed(it))]
    /\ UNCHANGED <<algo, args, st, live, rows, phase, fin, last, lossSum>>

\* if it.test(...): break; return iterationCtrl.iteration
Driver_test ==
    /\ it.pc = "test"
    /\ it' = IF IterationController_test(it)
             THEN [it EXCEPT !.pc = "returned", !.result = it.iteration,
                             !.distance = TestDistance(it)]
             ELSE [it EXCEPT !.pc = "update",
                             !.distance = TestDistance(it)]
    /\ UNCHANGED <<algo, args, st, live, rows, phase, fin, last, lossSum>>

NextDriver ==
    \/ Driver_update
    \/ Driver_test

SpecDriver == InitDriver /\ [][NextDriver]_vars

\* the statements of the loop follow each other in one Python thread, and a
\* pass over a finite table returns: a step that can be taken is taken
SpecDriverFair == InitDriver /\ [][NextDriver]_vars /\ WF_vars(NextDriver)

(* ------------------------------------------------------------------ *)
(* Calls whose arguments need not fit each other: an example of any    *)
(* width, a dimension argument of 0, two states of different dimension *)
(* ------------------------------------------------------------------ *)

MaxCalls == 2

ShapeAlgos == {"linear_svm_igd", "linear_svm_cg", "linear_svm_best_ball",
               "linear_svm_igd_bb"}

\* args[4]: the dimension argument, an unsigned integer
ShapeDimensions == {0} \cup Dimensions

\* tuples whose indVar has d entries
Examples(d) ==
    IF d = 0 THEN [indVar : {<< >>}, depVar : {One, FNeg(One)}]
    ELSE GLMTuples(d)

AnyExamples == UNION { Examples(d) : d \in ShapeDimensions }

\* the arguments of the calls
ShapeArgs(a) ==
    IF a = "linear_svm_igd" THEN
        { [NoArgs EXCEPT !.dimension = d, !.stepsize = One] :
            d \in ShapeDimensions }
    ELSE IF a = "linear_svm_cg" THEN
        { [NoArgs EXCEPT !.dimension = d] : d \in ShapeDimensions }
    ELSE IF a = "linear_svm_best_ball" THEN
        { [NoArgs EXCEPT !.dimension = d, !.model = ZeroVector(d),
                         !.direction = Ones(d), !.stepsizes = c] :
            d \in ShapeDimensions, c \in CandidateLists }
    ELSE
        { [NoArgs EXCEPT !.dimension = d, !.stepsizes = c] :
            d \in ShapeDimensions, c \in CandidateLists }

\* the states the calls are applied to: the initial state, and the states
\* one transition call on a fitting example returns
ShapeStates(a) ==
    {initcond(a)} \cup
    IF a = "linear_svm_igd" THEN
        UNION { { linear_svm_igd_transition(GLMIGDState_initcond, t, Null, d,
                                            One) : t \in Examples(d) } :
                d \in ShapeDimensions }
    ELSE IF a = "linear_svm_cg" THEN
        UNION { { linear_svm_cg_transition(GLMCGState_initcond, t, Null, d) :
                    t \in Examples(d) } :
                d \in ShapeDimensions }
    ELSE IF a = "linear_svm_best_ball" THEN
        { linear_svm_best_ball_transition(GLMBestBallState_initcond, t,
                                          ZeroVector(Len(t.indVar)),
                                          Ones(Len(t.indVar)), c) :
            t \in AnyExamples, c \in CandidateLists }
    ELSE {}

InitShapes ==
    /\ algo \in ShapeAlgos
    /\ args \in ShapeArgs(algo)
    /\ st \in [Workers -> ShapeStates(algo)]
    /\ live = Workers
    /\ rows = 0
    /\ phase = "accumulating"
    /\ fin = Null
    /\ last = [op |-> "none"]
    /\ lossSum = Zero
    /\ it = NoController

\* a call of function op on worker w's state: a call that throws ends the
\* query and leaves no state, otherwise the worker's state becomes out
Called(op, w, arg, out) ==
    /\ phase = "accumulating"
    /\ rows < MaxCalls
    /\ w \in live
    /\ rows' = rows + 1
    /\ last' = [op |-> op, pre |-> st[w], arg |-> arg, out |-> out,
                worker |-> w]
    /\ IF out = Raised
       THEN phase' = "aborted" /\ UNCHANGED <<st, live>>
       ELSE /\ st' = [st EXCEPT ![w] = out]
            /\ UNCHANGED <<phase, live>>
    /\ UNCHANGED <<algo, args, fin, lossSum, it>>

\* a transition call on worker w's state with an example that need not have
\* the width D of the vectors the call combines it with.  An example of
\* another width is read over D cells: undefined behaviour when it is
\* shorter.  The call then returns the state computed from the cells read
\* (beyond: the cells behind the example), or it ends the query (asserts):
\* the vector library throws where it checks sizes, the process is killed
\* where a cell read is not mapped
TupleRead(tuple, D, beyond) ==
    [tuple EXCEPT !.indVar = ReadAs(@, D, beyond)]

\* whether a call on operands of these lengths may end the query
Asserts(n, D) == IF n = D THEN {FALSE} ELSE BOOLEAN

\* the cells read behind an operand of length n that is read over D cells
BeyondRead(n, D, asserts) ==
    IF asserts THEN { << >> } ELSE ReadLists(D - n)

Shaped_linear_svm_igd ==
    /\ algo = "linear_svm_igd"
    /\ phase = "accumulating" /\ rows < MaxCalls
    /\ \E w \in Workers, tuple \in AnyExamples :
         LET s0 == IF st[w].algo.numRows = 0
                   THEN linear_svm_igd_init(args.previous, args.dimension,
                                            args.stepsize)
                   ELSE st[w]
             D == Len(s0.algo.incrModel)
             n == Len(tuple.indVar)
         IN  \E asserts \in Asserts(n, D) :
               \E beyond \in BeyondRead(n, D, asserts) :
                 Called("linear_svm_igd_transition", w,
                        [tuple |-> tuple, dimension |-> args.dimension],
                        IF asserts THEN Raised
                        ELSE linear_svm_igd_transition(
                                 st[w], TupleRead(tuple, D, beyond),
                                 args.previous, args.dimension,
                                 args.stepsize))

Shaped_linear_svm_cg ==
    /\ algo = "linear_svm_cg"
    /\ phase = "accumulating" /\ rows < MaxCalls
    /\ \E w \in Workers, tuple \in AnyExamples :
         LET s0 == IF st[w].algo.numRows = 0
                   THEN linear_svm_cg_init(args.previous, args.dimension)
                   ELSE st[w]
             D == Len(s0.task.model)
             n == Len(tuple.indVar)
         IN  \E asserts \in Asserts(n, D) :
               \E beyond \in BeyondRead(n, D, asserts) :
                 Called("linear_svm_cg_transition", w,
                        [tuple |-> tuple, dimension |-> args.dimension],
                        IF asserts THEN Raised
                        ELSE linear_svm_cg_transition(
                                 st[w], TupleRead(tuple, D, beyond),
                                 args.previous, args.dimension))

\* (the candidate list of the pass is the one the state was started with)
Shaped_linear_svm_best_ball ==
    /\ algo = "linear_svm_best_ball"
    /\ phase = "accumulating" /\ rows < MaxCalls
    /\ \E w \in Workers, tuple \in AnyExamples :
         LET D == Len(args.model)
             n == Len(tuple.indVar)
         IN  /\ st[w].numRows = 0 \/ st[w].dimension = Len(args.stepsizes)
             /\ \E asserts \in Asserts(n, D) :
                   \E beyond \in BeyondRead(n, D, asserts) :
                     Called("linear_svm_best_ball_transition", w,
                            [tuple |-> tuple, dimension |-> args.dimension],
                            IF asserts THEN Raised
                            ELSE linear_svm_best_ball_transition(
                                     st[w], TupleRead(tuple, D, beyond),
                                     args.model, args.direction,
                                     args.stepsizes))

Shaped_linear_svm_igd_bb ==
    /\ algo = "linear_svm_igd_bb"
    /\ phase = "accumulating" /\ rows < MaxCalls
    /\ \E tuple \in AnyExamples :
         LET D == args.dimension
             n == Len(tuple.indVar)
         IN  \E asserts \in Asserts(n, D) :
               \E beyond \in BeyondRead(n, D, asserts) :
                 Called("linear_svm_igd_bb_transition", 1,
                        [tuple |-> tuple, dimension |-> args.dimension],
                        IF asserts THEN Raised
                        ELSE linear_svm_igd_bb_transition(
                                 st[1], TupleRead(tuple, D, beyond),
                                 args.previous, args.dimension,
                                 args.stepsizes))

\* the rows a transition state of the running aggregate has seen
NumRows(state) ==
    IF algo = "linear_svm_best_ball" THEN state.numRows
    ELSE state.algo.numRows

\* the merge function is called on two states; the left-hand state is bound
\* to a mutable handle, which may or may not be a copy of the caller's array:
\* inPlace tells whether the caller's array was the one written.  The handle
\* is written only when both states are non-empty and the merge went through
Written(stateLeft, stateRight, out) ==
    /\ NumRows(stateLeft) > 0
    /\ NumRows(stateRight) > 0
    /\ out # Raised

MergeCalled(op, i, j, inPlace, out) ==
    /\ phase = "accumulating"
    /\ rows < MaxCalls
    /\ i \in live /\ j \in live /\ i # j
    /\ rows' = rows + 1
    /\ last' = [op |-> op, pre |-> st[i], arg |-> st[j], out |-> out,
                left |-> IF inPlace /\ Written(st[i], st[j], out)
                         THEN out ELSE st[i],
                right |-> st[j]]
    /\ IF out = Raised
       THEN phase' = "aborted" /\ UNCHANGED <<st, live>>
       ELSE /\ st' = [st EXCEPT ![i] = out]
            /\ live' = live \ {j}
            /\ UNCHANGED phase
    /\ UNCHANGED <<algo, args, fin, lossSum, it>>

\* the merge functions combine a vector of the left-hand state with the one
\* of the right-hand state, over the cells of the left-hand one, when both
\* states have counted a row.  A right-hand vector of another length is
\* read over that many cells: the call returns the state computed from the
\* cells read, or it ends the query (asserts)
Combined(stateLeft, stateRight) ==
    NumRows(stateLeft) > 0 /\ NumRows(stateRight) > 0

MergeAsserts(stateLeft, stateRight, n, D) ==
    IF Combined(stateLeft, stateRight) THEN Asserts(n, D) ELSE {FALSE}

MergeRead(stateLeft, stateRight, n, D, asserts) ==
    IF Combined(stateLeft, stateRight) THEN BeyondRead(n, D, asserts)
    ELSE { << >> }

ShapedMerge_linear_svm_igd ==
    /\ algo = "linear_svm_igd"
    /\ phase = "accumulating" /\ rows < MaxCalls
    /\ \E i \in Workers, j \in Workers, inPlace \in BOOLEAN :
         LET D == Len(st[i].algo.incrModel)
             n == Len(st[j].algo.incrModel)
         IN  \E asserts \in MergeAsserts(st[i], st[j], n, D) :
               \E beyond \in MergeRead(st[i], st[j], n, D, asserts) :
                 MergeCalled("linear_svm_igd_merge", i, j, inPlace,
                             IF asserts THEN Raised
                             ELSE linear_svm_igd_merge(
                                      st[i],
                                      IF Combined(st[i], st[j])
                                      THEN [st[j] EXCEPT !.algo.incrModel =
                                               ReadAs(@, D, beyond)]
                                      ELSE st[j]))

ShapedMerge_linear_svm_cg ==
    /\ algo = "linear_svm_cg"
    /\ phase = "accumulating" /\ rows < MaxCalls
    /\ \E i \in Workers, j \in Workers, inPlace \in BOOLEAN :
         LET D == Len(st[i].algo.incrGradient)
             n == Len(st[j].algo.incrGradient)
         IN  \E asserts \in MergeAsserts(st[i], st[j], n, D) :
               \E beyond \in MergeRead(st[i], st[j], n, D, asserts) :
                 MergeCalled("linear_svm_cg_merge", i, j, inPlace,
                             IF asserts THEN Raised
                             ELSE linear_svm_cg_merge(
                                      st[i],
                                      IF Combined(st[i], st[j])
                                      THEN [st[j] EXCEPT !.algo.incrGradient =
                                               ReadAs(@, D, beyond)]
                                      ELSE st[j]))

ShapedMerge_linear_svm_best_ball ==
    /\ algo = "linear_svm_best_ball"
    /\ phase = "accumulating" /\ rows < MaxCalls
    /\ \E i \in Workers, j \in Workers, inPlace \in BOOLEAN :
         LET D == Len(st[i].loss_list)
             n == Len(st[j].loss_list)
         IN  \E asserts \in MergeAsserts(st[i], st[j], n, D) :
               \E beyond \in MergeRead(st[i], st[j], n, D, asserts) :
                 MergeCalled("linear_svm_best_ball_merge", i, j, inPlace,
                             IF asserts THEN Raised
                             ELSE linear_svm_best_ball_merge(
                                      st[i],
                                      IF Combined(st[i], st[j])
                                      THEN [st[j] EXCEPT !.loss_list =
                                               ReadAs(@, D, beyond)]
                                      ELSE st[j]))

NextShapes ==
    \/ Shaped_linear_svm_igd
    \/ Shaped_linear_svm_cg
    \/ Shaped_linear_svm_best_ball
    \/ Shaped_linear_svm_igd_bb
    \/ ShapedMerge_linear_svm_igd
    \/ ShapedMerge_linear_svm_cg
    \/ ShapedMerge_linear_svm_best_ball

SpecShapes == InitShapes /\ [][NextShapes]_vars

(* ------------------------------------------------------------------ *)
(* ridge.sql_in: Newton's method for ridge regression                  *)
(* ------------------------------------------------------------------ *)

\* the largest SMALLINT (2^15 - 1)
INT2_MAX == 32767

\* variant: an INTEGER is cut to its low 16 bits
ToInt2_wrapped(n) ==
    [value |-> ((n + INT2_MAX + 1) % (2 * (INT2_MAX + 1))) - (INT2_MAX + 1)]

\* (n)::INT2 : the cast of an INTEGER to SMALLINT raises "smallint out of
\* range" for a value that does not fit
ToInt2(n) ==
    IF n > INT2_MAX \/ n < -(INT2_MAX + 1) THEN Raised ELSE [value |-> n]

\* the values of the INTEGER argument dimension
RidgeDimensions ==
    {0, 1, 2, INT2_MAX, INT2_MAX + 1, 2 * (INT2_MAX + 1) + 1, 2147483647}

RidgeLambdas == {Zero, <<1, 10>>, One}

\* the lambda the overload without lambda passes on
RidgeDefaultLambda == <<1, 10>>

\* the aggregate over the source table; its transition, merge and final
\* functions are C functions, kept here as the call with its arguments
ridge_newton_step(rel_source, previous_state, dimension, lambda) ==
    [aggregate |-> "ridge_newton_step", rel_source |-> rel_source,
     previous_state |-> previous_state, dimension |-> dimension,
     lambda |-> lambda]

internal_ridge_newton_result(state) == [result_of |-> state]

\* it.exists: the result table exists; it.rel_output: its rows;
\* it.id_seq: the last value of its id sequence
InitRidge ==
    /\ algo = "ridge_newton"
    /\ args = NoArgs
    /\ st = [w \in Workers |-> Null]
    /\ live = {}
    /\ rows = 0
    /\ phase = "run"
    /\ fin = Null
    /\ last = [op |-> "none"]
    /\ lossSum = Zero
    /\ \E rel_source \in {"ridge_data", "ridge_view"} :
           it = [pc |-> "ridge", rel_source |-> rel_source,
                 exists |-> FALSE, rel_output |-> << >>, id_seq |-> 0]

\* the call ends in an error: what it wrote to tables is rolled back, a
\* value taken from the sequence of an existing table is not given back
RidgeFailed(c) ==
    [c EXCEPT !.id_seq = IF c.exists THEN @ + 1 ELSE @]

\* ridge_newton_run(rel_output, rel_source, col_ind_var, col_dep_var,
\*                  dimension, lambda): the state of the database after it
ridge_newton_run(c, dimension, lambda) ==
    LET model_id == c.id_seq + 1
        dim2     == ToInt2(dimension)
        result   == internal_ridge_newton_result(
                        ridge_newton_step(c.rel_source, Null, dim2.value,
                                          lambda))
    IN  IF dim2 = Raised THEN RidgeFailed(c)
        ELSE [c EXCEPT !.exists = TRUE,
                       !.id_seq = model_id,
                       !.rel_output =
                           Append(@, [id |-> model_id,
                                      coefficients |-> result])]

\* what the call returns: the model id, or the error
ridge_newton_run_returns(c, dimension, lambda) ==
    IF ToInt2(dimension) = Raised THEN Raised
    ELSE [model_id |-> c.id_seq + 1]

RidgeCalled(op, dimension, lambda) ==
    /\ algo = "ridge_newton"
    /\ rows < MaxCalls
    /\ rows' = rows + 1
    /\ it' = ridge_newton_run(it, dimension, lambda)
    /\ last' = [op |-> op, pre |-> it,
                arg |-> [dimension |-> dimension, lambda |-> lambda],
                out |-> ridge_newton_run_returns(it, dimension, lambda)]
    /\ UNCHANGED <<algo, args, st, live, phase, fin, lossSum>>

Ridge_run ==
    /\ it.pc = "ridge"
    /\ \E dimension \in RidgeDimensions, lambda \in RidgeLambdas :
           RidgeCalled("ridge_newton_run", dimension, lambda)

\* the overload without lambda: ridge_newton_run($1, $2, $3, $4, $5, 0.1)
Ridge_run_dimension ==
    /\ it.pc = "ridge"
    /\ \E dimension \in RidgeDimensions :
           RidgeCalled("ridge_newton_run/5", dimension, RidgeDefaultLambda)

NextRidge ==
    \/ Ridge_run
    \/ Ridge_run_dimension

SpecRidge == InitRidge /\ [][NextRidge]_vars

(* ------------------------------------------------------------------ *)
(* The entry points linear_svm_igd_run, linear_svm_cg_run,             *)
(* logit_igd_run, logit_newton_run and lasso_igd_run with their        *)
(* overloads                                                           *)
(* ------------------------------------------------------------------ *)

\* the entry points whose overloads take (dimension, stepsize,
\* num_iterations, tolerance) and pass the same literals
StepsizeRuns == {"linear_svm_igd", "linear_svm_cg", "logit_igd"}

RunAlgos == StepsizeRuns \cup {"logit_newton", "lasso_igd"}

RunDimensions == {1, 2}
RunStepsizes == {<<1, 100>>, <<1, 10>>, One}
RunLambdas == {<<1, 10>>, One}
RunNumIterations == {1, 2, 10}
RunTolerances == {<<1, 1000000>>, Half}
\* count(*) of the source table
RunTotalRows == {0, 3}

\* linear_svm_igd_run, linear_svm_cg_run and logit_igd_run with all eight
\* arguments: the row of the argument table (_madlib_linear_svm_igd_args,
\* _madlib_logit_igd_args) the driver reads
linear_svm_igd_run_8(dimension, stepsize, num_iterations, tolerance) ==
    [dimension |-> dimension, stepsize |-> stepsize,
     num_iterations |-> num_iterations, tolerance |-> tolerance]

\* six arguments: linear_svm_igd_run($1, ..., $6, 10, 0.000001)
linear_svm_igd_run_6(dimension, stepsize) ==
    linear_svm_igd_run_8(dimension, stepsize, 10, <<1, 1000000>>)

\* variant: the stepsize of the comment, 0.01
linear_svm_igd_run_5_hundredth(dimension) ==
    linear_svm_igd_run_6(dimension, <<1, 100>>)

\* five arguments: linear_svm_igd_run($1, $2, $3, $4, $5, 0.1)
linear_svm_igd_run_5(dimension) ==
    linear_svm_igd_run_6(dimension, <<1, 10>>)

\* four arguments: the statement that computes the dimension,
\* SELECT max(array_upper(col, 1) FROM rel_source, lacks a parenthesis:
\* a syntax error
linear_svm_igd_run_4 == Raised

\* logit_newton_run with all seven arguments: the row of
\* _madlib_logit_newton_args
logit_newton_run_7(dimension, num_iterations, tolerance) ==
    [dimension |-> dimension, num_iterations |-> num_iterations,
     tolerance |-> tolerance]

\* five arguments: logit_newton_run($1, $2, $3, $4, $5, 10, 0.000001)
logit_newton_run_5(dimension) ==
    logit_newton_run_7(dimension, 10, <<1, 1000000>>)

\* four arguments: the same statement without its parenthesis
logit_newton_run_4 == Raised

\* lasso_igd_run with all ten arguments: the row of _madlib_lasso_igd_args
lasso_igd_run_10(dimension, stepsize, lambda, total_rows, num_iterations, tolerance) ==
    [dimension |-> dimension, stepsize |-> stepsize, lambda |-> lambda,
     total_rows |-> total_rows, num_iterations |-> num_iterations,
     tolerance |-> tolerance]

\* eight arguments: lasso_igd_run($1, ..., $8, 10, 0.000001)
lasso_igd_run_8(dimension, stepsize, lambda, total_rows) ==
    lasso_igd_run_10(dimension, stepsize, lambda, total_rows,
                     10, <<1, 1000000>>)

\* seven arguments: total_rows is SELECT count(*) FROM rel_source
lasso_igd_run_7(dimension, stepsize, lambda, count) ==
    lasso_igd_run_8(dimension, stepsize, lambda, count)

\* six arguments: lasso_igd_run($1, ..., $6, 0.1)
lasso_igd_run_6(dimension, stepsize, count) ==
    lasso_igd_run_7(dimension, stepsize, <<1, 10>>, count)

\* five arguments: lasso_igd_run($1, $2, $3, $4, $5, 0.1)
lasso_igd_run_5(dimension, count) ==
    lasso_igd_run_6(dimension, <<1, 10>>, count)

\* four arguments: the same statement without its parenthesis
lasso_igd_run_4 == Raised

\* it.args: the argument table; it.rel_output: the stored models, each
\* with the iteration whose state it was taken from
InitRuns ==
    /\ algo \in RunAlgos
    /\ args = NoArgs
    /\ st = [w \in Workers |-> Null]
    /\ live = {}
    /\ rows = 0
    /\ phase = "run"
    /\ fin = Null
    /\ last = [op |-> "none"]
    /\ lossSum = Zero
    /\ it = [pc |-> "run", args |-> Null, rel_output |-> << >>,
             id_seq |-> 0]

\* the rest of the entry point with the argument table written: the driver
\* returns the number of an iteration, whose stored state becomes the row
\* of a new id in the output table
RunStored(c, argsTable, iteration_run) ==
    [c EXCEPT !.args = argsTable,
              !.id_seq = @ + 1,
              !.rel_output = Append(@, [id |-> c.id_seq + 1,
                                        iteration |-> iteration_run])]

\* the iteration numbers the driver can return: its loop tests
\* {iteration} > num_iterations after every pass, and the first test has no
\* previous state to measure a distance from
IterationsRun(num_iterations) ==
    IF num_iterations < 1 THEN {1} ELSE 2..(num_iterations + 1)

\* given: the arguments of the call; out: the argument table they lead to
RunCalled(arity, given, out) ==
    /\ it.pc = "run"
    /\ rows < MaxCalls
    /\ rows' = rows + 1
    /\ last' = [op |-> "run", fn |-> algo, arity |-> arity,
                arg |-> given, out |-> out, pre |-> it]
    /\ IF out = Raised THEN UNCHANGED it
       ELSE \E iteration_run \in IterationsRun(out.num_iterations) :
                it' = RunStored(it, out, iteration_run)
    /\ UNCHANGED <<algo, args, st, live, phase, fin, lossSum>>

Run_svm_8 ==
    /\ algo \in StepsizeRuns
    /\ \E d \in RunDimensions, s \in RunStepsizes,
          n \in RunNumIterations, t \in RunTolerances :
           RunCalled(8, [dimension |-> d, stepsize |-> s,
                         num_iterations |-> n, tolerance |-> t],
                     linear_svm_igd_run_8(d, s, n, t))

Run_svm_6 ==
    /\ algo \in StepsizeRuns
    /\ \E d \in RunDimensions, s \in RunStepsizes :
           RunCalled(6, [dimension |-> d, stepsize |-> s],
                     linear_svm_igd_run_6(d, s))

Run_svm_5 ==
    /\ algo \in StepsizeRuns
    /\ \E d \in RunDimensions :
           RunCalled(5, [dimension |-> d], linear_svm_igd_run_5(d))

Run_svm_4 ==
    /\ algo \in StepsizeRuns
    /\ RunCalled(4, [rel_source |-> "source"], linear_svm_igd_run_4)

Run_newton_7 ==
    /\ algo = "logit_newton"
    /\ \E d \in RunDimensions, n \in RunNumIterations, t \in RunTolerances :
           RunCalled(7, [dimension |-> d, num_iterations |-> n,
                         tolerance |-> t],
                     logit_newton_run_7(d, n, t))

Run_newton_5 ==
    /\ algo = "logit_newton"
    /\ \E d \in RunDimensions :
           RunCalled(5, [dimension |-> d], logit_newton_run_5(d))

Run_newton_4 ==
    /\ algo = "logit_newton"
    /\ RunCalled(4, [rel_source |-> "source"], logit_newton_run_4)

Run_lasso_10 ==
    /\ algo = "lasso_igd"
    /\ \E d \in RunDimensions, s \in RunStepsizes, l \in RunLambdas,
          r \in RunTotalRows, n \in RunNumIterations, t \in RunTolerances :
           RunCalled(10, [dimension |-> d, stepsize |-> s, lambda |-> l,
                          total_rows |-> r, num_iterations |-> n,
                          tolerance |-> t],
                     lasso_igd_run_10(d, s, l, r, n, t))

Run_lasso_8 ==
    /\ algo = "lasso_igd"
    /\ \E d \in RunDimensions, s \in RunStepsizes, l \in RunLambdas,
          r \in RunTotalRows :
           RunCalled(8, [dimension |-> d, stepsize |-> s, lambda |-> l,
                         total_rows |-> r],
                     lasso_igd_run_8(d, s, l, r))

Run_lasso_7 ==
    /\ algo = "lasso_igd"
    /\ \E d \in RunDimensions, s \in RunStepsizes, l \in RunLambdas,
          count \in RunTotalRows :
           RunCalled(7, [dimension |-> d, stepsize |-> s, lambda |-> l],
                     lasso_igd_run_7(d, s, l, count))

Run_lasso_6 ==
    /\ algo = "lasso_igd"
    /\ \E d \in RunDimensions, s \in RunStepsizes, count \in RunTotalRows :
           RunCalled(6, [dimension |-> d, stepsize |-> s],
                     lasso_igd_run_6(d, s, count))

Run_lasso_5 ==
    /\ algo = "lasso_igd"
    /\ \E d \in RunDimensions, count \in RunTotalRows :
           RunCalled(5, [dimension |-> d], lasso_igd_run_5(d, count))

Run_lasso_4 ==
    /\ algo = "lasso_igd"
    /\ RunCalled(4, [rel_source |-> "source"], lasso_igd_run_4)

NextRuns ==
    \/ Run_svm_8
    \/ Run_svm_6
    \/ Run_svm_5
    \/ Run_svm_4
    \/ Run_newton_7
    \/ Run_newton_5
    \/ Run_newton_4
    \/ Run_lasso_10
    \/ Run_lasso_8
    \/ Run_lasso_7
    \/ Run_lasso_6
    \/ Run_lasso_5
    \/ Run_lasso_4

SpecRuns == InitRuns /\ [][NextRuns]_vars

(* ------------------------------------------------------------------ *)
(* cox_prop_hazards.sql_in: the entry point cox_prop_hazards           *)
(* ------------------------------------------------------------------ *)

CoxOptimizers == {"newton", "Newton", "cg"}
CoxMaxNumIterations == {1, 2, 20}
CoxPrecisions == {<<1, 10000>>, Half}
\* what tells the states of one source table from those of another
CoxSources == {1, 2}

\* RAISE EXCEPTION 'Unknown optimizer (''%'')', optimizer
UnknownOptimizer(optimizer) ==
    [raised |-> TRUE, message |-> "Unknown optimizer", optimizer |-> optimizer]

\* compute_cox_prop_hazards, a Python function: it leaves the states of its
\* iterations in _madlib_iterative_alg and returns the number of the last one;
\* the passes over a source without rows leave NULL states
CoxComputed(source, maxNumIterations) ==
    { [iteration |-> k,
       rel_state |-> [i \in 1..k |->
                         IF empty THEN Null
                         ELSE [source |-> source, step |-> i]]] :
          k \in {1, maxNumIterations}, empty \in BOOLEAN }

\* the C function that turns a state into a result row (STRICT: NULL for a
\* NULL state); it does not set num_iterations
internal_cox_prop_hazards_result(state) ==
    IF state = Null THEN Null
    ELSE [coef_of |-> state, num_iterations |-> 0]

\* variant: the result function is chosen whatever the optimizer is
cox_prop_hazards_anyOptimizer(computed, optimizer) ==
    LET theIteration == computed.iteration
        theResult    == internal_cox_prop_hazards_result(
                            StateOf(computed.rel_state, theIteration))
    IN  IF theResult # Null
        THEN [theResult EXCEPT !.num_iterations = theIteration]
        ELSE theResult

\* variant: the row is returned as the C function made it
cox_prop_hazards_asComputed(computed, optimizer) ==
    LET theIteration == computed.iteration
        theResult    == internal_cox_prop_hazards_result(
                            StateOf(computed.rel_state, theIteration))
    IN  IF optimizer # "newton" THEN UnknownOptimizer(optimizer)
        ELSE theResult

\* cox_prop_hazards with six arguments, after compute_cox_prop_hazards has
\* returned: the row it returns, or the error it raises
cox_prop_hazards(computed, optimizer) ==
    LET theIteration == computed.iteration
        theResult    == internal_cox_prop_hazards_result(
                            StateOf(computed.rel_state, theIteration))
    IN  IF optimizer # "newton" THEN UnknownOptimizer(optimizer)
        ELSE IF theResult # Null
        THEN [theResult EXCEPT !.num_iterations = theIteration]
        ELSE theResult

\* it.rel_state: the table _madlib_iterative_alg
InitCox ==
    /\ algo = "cox_prop_hazards"
    /\ args = NoArgs
    /\ st = [w \in Workers |-> Null]
    /\ live = {}
    /\ rows = 0
    /\ phase = "run"
    /\ fin = Null
    /\ last = [op |-> "none"]
    /\ lossSum = Zero
    /\ it = [pc |-> "cox", rel_state |-> << >>]

\* a call that raises leaves the tables as they were before it
CoxCalled(arity, maxNumIterations, optimizer, precision, computed) ==
    LET out == cox_prop_hazards(computed, optimizer)
    IN  /\ rows < MaxCalls
        /\ rows' = rows + 1
        /\ last' = [op |-> "cox_prop_hazards", arity |-> arity,
                    arg |-> [maxNumIterations |-> maxNumIterations,
                             optimizer |-> optimizer,
                             precision |-> precision],
                    pre |-> it, computed |-> computed, out |-> out]
        /\ it' = IF "raised" \in DOMAIN out THEN it
                 ELSE [it EXCEPT !.rel_state = computed.rel_state]
        /\ UNCHANGED <<algo, args, st, live, phase, fin, lossSum>>

Cox_run ==
    /\ it.pc = "cox"
    /\ \E n \in CoxMaxNumIterations, o \in CoxOptimizers,
          p \in CoxPrecisions, source \in CoxSources :
           \E computed \in CoxComputed(source, n) :
               CoxCalled(6, n, o, p, computed)

\* cox_prop_hazards($1, $2, $3, $4, $5, 0.0001)
Cox_run_5 ==
    /\ it.pc = "cox"
    /\ \E n \in CoxMaxNumIterations, o \in CoxOptimizers,
          source \in CoxSources :
           \E computed \in CoxComputed(source, n) :
               CoxCalled(5, n, o, <<1, 10000>>, computed)

\* cox_prop_hazards($1, $2, $3, $4, 'newton', 0.0001)
Cox_run_4 ==
    /\ it.pc = "cox"
    /\ \E n \in CoxMaxNumIterations, source \in CoxSources :
           \E computed \in CoxComputed(source, n) :
               CoxCalled(4, n, "newton", <<1, 10000>>, computed)

\* cox_prop_hazards($1, $2, $3, 20, 'newton', 0.0001)
Cox_run_3 ==
    /\ it.pc = "cox"
    /\ \E source \in CoxSources :
           \E computed \in CoxComputed(source, 20) :
               CoxCalled(3, 20, "newton", <<1, 10000>>, computed)

NextCox ==
    \/ Cox_run
    \/ Cox_run_5
    \/ Cox_run_4
    \/ Cox_run_3

SpecCox == InitCox /\ [][NextCox]_vars

(* ------------------------------------------------------------------ *)
(* linear_svm_igd.cpp: linear_svm_igd_min_transition, the aggregate    *)
(* that keeps the state of least loss among finalized IGD states       *)
(* ------------------------------------------------------------------ *)

\* variant: a later state of the same loss replaces the kept one
linear_svm_igd_min_transition_orEqual(state, next) ==
    IF state.algo.numRows = 0 THEN next
    ELSE IF ~FLess(state.algo.loss, next.algo.loss) THEN next
    ELSE state

\* if (state.algo.numRows == 0): a copy of next, cell by cell;
\* if (state.algo.loss > nextState.algo.loss) return args[1]; else args[0]
linear_svm_igd_min_transition(state, next) ==
    IF state.algo.numRows = 0 THEN next
    ELSE IF FGreater(state.algo.loss, next.algo.loss) THEN next
    ELSE state

MinLosses == {Zero, Half, One, <<3, 2>>}

MinModels == {<<Zero>>, <<One>>, <<FNeg(One)>>}

\* finalized IGD states: what linear_svm_igd_final returns after a pass of
\* two examples that ended at that model with that loss
MinStates ==
    { linear_svm_igd_final(
          [task |-> [dimension |-> 1, stepsize |-> One, model |-> <<Zero>>],
           algo |-> [numRows |-> 2, loss |-> l, incrModel |-> m]]) :
        l \in MinLosses, m \in MinModels }

\* it.folded: the states folded so far, in their order
InitMin ==
    /\ algo = "linear_svm_igd_min"
    /\ args = NoArgs
    /\ st = [w \in Workers |-> GLMIGDState_initcond]
    /\ live = {1}
    /\ rows = 0
    /\ phase = "accumulating"
    /\ fin = Null
    /\ last = [op |-> "none"]
    /\ lossSum = Zero
    /\ it = [pc |-> "min", folded |-> << >>]

Transition_linear_svm_igd_min ==
    /\ algo = "linear_svm_igd_min"
    /\ rows < MaxRows
    /\ \E next \in MinStates :
           LET out == linear_svm_igd_min_transition(st[1], next)
           IN  /\ st' = [st EXCEPT ![1] = out]
               /\ last' = [op |-> "linear_svm_igd_min_transition",
                           pre |-> st[1], arg |-> next, out |-> out]
               /\ it' = [it EXCEPT !.folded = Append(@, next)]
    /\ rows' = rows + 1
    /\ UNCHANGED <<algo, args, live, phase, fin, lossSum>>

NextMin == Transition_linear_svm_igd_min

SpecMin == InitMin /\ [][NextMin]_vars

(* ------------------------------------------------------------------ *)
(* One IGD pass computed twice over the same examples: as one stream,   *)
(* and as two partitions whose states are merged before the final       *)
(* function                                                             *)
(* ------------------------------------------------------------------ *)

\* st[1] is the state of the one stream; the states of the two partitions
Partitions == {2, 3}

InitPartitions ==
    /\ algo = "linear_svm_igd"
    /\ args \in {x \in PassArgs(algo) : ArgsOk(algo, x)}
    /\ st = [w \in {1} \cup Partitions |-> GLMIGDState_initcond]
    /\ live = {1} \cup Partitions
    /\ rows = 0
    /\ phase = "accumulating"
    /\ fin = Null
    /\ last = [op |-> "none"]
    /\ lossSum = Zero
    /\ it = [pc |-> "partitions"]

\* the next example is folded into the stream and into one of the partitions
Transition_partitions ==
    /\ it.pc = "partitions"
    /\ phase = "accumulating"
    /\ rows < MaxRows
    /\ \E w \in Partitions, tuple \in GLMTuples(PassDimension) :
           /\ st' = [st EXCEPT
                        ![1] =
                            linear_svm_igd_transition(st[1], tuple,
                                                      args.previous,
                                                      args.dimension,
                                                      args.stepsize),
                        ![w] =
                            linear_svm_igd_transition(st[w], tuple,
                                                      args.previous,
                                                      args.dimension,
                                                      args.stepsize)]
           /\ last' = [op |-> "linear_svm_igd_transition", pre |-> st[w],
                       arg |-> tuple, out |-> st'[w]]
    /\ rows' = rows + 1
    /\ UNCHANGED <<algo, args, live, phase, fin, lossSum, it>>

\* the stream is finalized, and so is the merged state of the partitions
Final_partitions ==
    /\ it.pc = "partitions"
    /\ phase = "accumulating"
    /\ LET merged == linear_svm_igd_merge(st[2], st[3])
       IN  /\ fin' = linear_svm_igd_final(merged)
           /\ last' = [op |-> "linear_svm_igd_final", pre |-> merged,
                       arg |-> Null, out |-> linear_svm_igd_final(merged),
                       stream |-> linear_svm_igd_final(st[1])]
    /\ phase' = "finalized"
    /\ UNCHANGED <<algo, args, st, live, rows, lossSum, it>>

NextPartitions ==
    \/ Transition_partitions
    \/ Final_partitions

SpecPartitions == InitPartitions /\ [][NextPartitions]_vars

(* ------------------------------------------------------------------ *)
(* Properties                                                          *)
(* ------------------------------------------------------------------ *)

TransitionOps == {"linear_svm_igd_transition", "logit_igd_transition",
                  "linear_svm_cg_transition",
                  "linear_svm_best_ball_transition"}

IGDTransitionOps == {"linear_svm_igd_transition", "logit_igd_transition"}

IGDMergeOps == {"linear_svm_igd_merge", "logit_igd_merge"}

MergeOps == IGDMergeOps \cup {"linear_svm_cg_merge",
                              "linear_svm_best_ball_merge"}

DistanceOps == {"internal_linear_svm_igd_distance",
                "internal_linear_svm_cg_distance",
                "internal_logit_igd_distance"}

RECURSIVE SumRows(_)
SumRows(S) ==
    IF S = {} THEN 0
    ELSE LET w == CHOOSE x \in S : TRUE
         IN  NumRows(st[w]) + SumRows(S \ {w})

\* C1: a merge with a state that has seen no rows returns the other state
\* unchanged, for each of the four merge functions: left empty gives the
\* right state, right empty gives the left state.
C1_MergeIdentity ==
    last.op \in MergeOps =>
        /\ NumRows(last.pre) = 0 => last.out = last.arg
        /\ NumRows(last.arg) = 0 /\ NumRows(last.pre) # 0 =>
               last.out = last.pre

\* a merge of an empty left state with a state that has seen rows has run
C1_Witness ==
    /\ last.op \in MergeOps
    /\ NumRows(last.pre) = 0
    /\ NumRows(last.arg) > 0
    /\ last.out = last.arg

\* C2: for every split of the rows of a pass over three partial states,
\* each folded from the empty state, the numRows of every merge result is
\* the sum of the numRows of its two operands, be they partial states or
\* merge results, and not lower than either; in every order of the merges
\* the last merge result has counted every row of the pass, and so has the
\* state the final function returns.
C2_MergeOrders ==
    last.op = "groupings" =>
        LET nA == NumRows(st[1])
            nB == NumRows(st[2])
            nC == NumRows(st[3])
        IN  /\ nA + nB + nC = rows
            /\ NumRows(last.ab) = nA + nB
            /\ NumRows(last.ba) = nB + nA
            /\ NumRows(last.bc) = nB + nC
            /\ NumRows(last.ac) = nA + nC
            /\ NumRows(last.ab_c) = NumRows(last.ab) + nC
            /\ NumRows(last.a_bc) = nA + NumRows(last.bc)
            /\ NumRows(last.ac_b) = NumRows(last.ac) + nB
            /\ \A merged \in {last.ab, last.ba, last.ab_c} :
                   NumRows(merged) >= nA /\ NumRows(merged) >= nB
            /\ NumRows(last.ab_c) >= NumRows(last.ab)
            /\ NumRows(last.ab_c) >= nC
            /\ \A merged \in {last.ab_c, last.a_bc, last.ac_b} :
                   NumRows(merged) = rows
            /\ algo # "linear_svm_best_ball" /\ rows > 0 =>
                   /\ last.final # Null
                   /\ last.final.algo.numRows = rows

\* an IGD pass of MaxRows rows, a row in each partial state: every operand
\* of the second merge of a grouping has counted rows
C2_Witness ==
    /\ last.op = "groupings"
    /\ algo = "linear_svm_igd"
    /\ rows = MaxRows
    /\ \A w \in Partials : NumRows(st[w]) > 0
    /\ NumRows(last.ab) = 2
    /\ NumRows(last.a_bc) = MaxRows
    /\ last.final # Null
    /\ last.final.algo.numRows = MaxRows

\* the logistic aggregate, two rows in one partial state and an empty one
C2_WitnessLogit ==
    /\ last.op = "groupings"
    /\ algo = "logit_igd"
    /\ NumRows(st[1]) = 2 /\ NumRows(st[2]) = 0 /\ NumRows(st[3]) = 1
    /\ NumRows(last.ac_b) = 3

\* the same over the merges of a pass of NumWorkers workers: the merged
\* count is the sum of the two counts and at least each of them, the counts
\* of the states not yet merged always add up to the rows folded, and the
\* state handed to the final function has counted every row of the pass
C2_NumRowsAdditive ==
    algo \in MergeAlgos =>
        /\ last.op \in MergeOps =>
               /\ NumRows(last.out) = NumRows(last.pre) + NumRows(last.arg)
               /\ NumRows(last.out) >= NumRows(last.pre)
               /\ NumRows(last.out) >= NumRows(last.arg)
        /\ SumRows(live) = rows
        /\ phase = "finalized" => \A w \in live : NumRows(st[w]) = rows

\* two states that have both seen rows were merged, every row folded
C2_WitnessPairwise ==
    /\ last.op \in MergeOps
    /\ NumRows(last.pre) > 0
    /\ NumRows(last.arg) > 0
    /\ rows = MaxRows
    /\ NumRows(last.out) = MaxRows

\* (nL * modelL + nR * modelR) / (nL + nR), component by component
WeightedAverage(nL, modelL, nR, modelR) ==
    [k \in 1..Len(modelL) |->
        FDiv(FAdd(FMul(FromInt(nL), modelL[k]), FMul(FromInt(nR), modelR[k])),
             FromInt(nL + nR))]

\* C3: an IGD merge of two non-empty states leaves the average of the two
\* incremental models weighted by the row counts the operands had before
\* the merge; the left count becomes nL + nR only afterwards.
C3_WeightedAverage ==
    last.op \in IGDMergeOps /\ NumRows(last.pre) > 0 /\ NumRows(last.arg) > 0 =>
        /\ last.out.algo.incrModel =
               WeightedAverage(last.pre.algo.numRows, last.pre.algo.incrModel,
                               last.arg.algo.numRows, last.arg.algo.incrModel)
        /\ last.out.algo.numRows =
               last.pre.algo.numRows + last.arg.algo.numRows

\* two states of different counts and different models were merged
C3_Witness ==
    /\ last.op \in IGDMergeOps
    /\ last.pre.algo.numRows = 2
    /\ last.arg.algo.numRows = 1
    /\ last.pre.algo.incrModel # last.arg.algo.incrModel
    /\ last.out.algo.incrModel # last.pre.algo.incrModel

\* numRows of sub-state i of a step-size-search buffer (0 in an empty buffer)
BBNumRows(storage, i, dimension) ==
    IF Cell(storage, 0) = Zero THEN 0
    ELSE ToUInt(Cell(storage,
                     IGDBB_numRows(i * (GLMIGDBBState_arraySize(dimension) + 1),
                                   dimension)))

\* C4: every transition call counts exactly one row, the initializing first
\* call included; linear_svm_igd_bb_transition counts one row in each of its
\* K sub-states.
C4_TransitionCountsOne ==
    /\ last.op \in TransitionOps =>
           NumRows(last.out) = NumRows(last.pre) + 1
    /\ last.op = "linear_svm_igd_bb_transition" =>
           \A i \in 0..(Len(args.stepsizes) - 1) :
               BBNumRows(last.out, i, args.dimension) =
                   BBNumRows(last.pre, i, args.dimension) + 1

\* a later call on a populated buffer of three sub-states has counted a row
C4_Witness ==
    /\ last.op = "linear_svm_igd_bb_transition"
    /\ Len(args.stepsizes) = 3
    /\ Cell(last.pre, 0) # Zero
    /\ BBNumRows(last.out, 2, args.dimension) = MaxRows

\* the first, initializing call of an IGD state has counted its row
C4_WitnessFirst ==
    /\ last.op \in IGDTransitionOps
    /\ NumRows(last.pre) = 0
    /\ args.previous # Null
    /\ NumRows(last.out) = 1

FinalOps == {"linear_svm_igd_final", "linear_svm_cg_final", "logit_igd_final"}

\* C5: the final functions of IGD, CG and logistic IGD return Null for a
\* state that has seen no rows, and a state that has counted the same rows
\* for every other state.
C5_FinalNoData ==
    last.op \in FinalOps =>
        /\ NumRows(last.pre) = 0 => last.out = Null
        /\ NumRows(last.pre) > 0 =>
               /\ last.out # Null
               /\ last.out.algo.numRows = NumRows(last.pre)

\* the CG final function was called on a state that has seen no rows
C5_Witness ==
    /\ last.op = "linear_svm_cg_final"
    /\ NumRows(last.pre) = 0
    /\ last.out = Null

BBFinalOps == {"linear_svm_best_ball_final", "linear_svm_igd_bb_final",
               "linear_svm_loss_bb_final"}

\* C6: every final function of the step-size search returns Null when no
\* tuple was folded into its state.
C6_SearchFinalNoData ==
    last.op \in BBFinalOps /\ rows = 0 => last.out = Null

\* C7: the distance is |lossA - lossB| / |lossB|, and a right-hand loss of
\* zero is never divided by.
C7_DistanceGuarded ==
    last.op \in DistanceOps =>
        /\ last.arg.algo.loss # Zero =>
               last.out.value =
                   FDiv(FAbs(FSub(last.pre.algo.loss, last.arg.algo.loss)),
                        FAbs(last.arg.algo.loss))
        /\ last.arg.algo.loss = Zero =>
               /\ last.out.divisor # Zero
               /\ ~IsNaN(last.out.value)

\* C8: the distance of a finalized state of non-zero loss from itself is 0,
\* for each of the three distance functions.
C8_DistanceSelfZero ==
    last.op \in DistanceOps /\ last.pre = last.arg
                            /\ last.arg.algo.loss # Zero =>
        last.out.value = Zero

\* a finalized state of non-zero loss was compared with itself
C8_Witness ==
    /\ last.op = "internal_linear_svm_igd_distance"
    /\ last.pre = last.arg
    /\ last.pre = fin
    /\ last.arg.algo.loss # Zero
    /\ last.out.value = Zero

LossAlgos == {"linear_svm_igd", "logit_igd", "linear_svm_cg"}

RECURSIVE SumLoss(_)
SumLoss(S) ==
    IF S = {} THEN Zero
    ELSE LET w == CHOOSE x \in S : TRUE
         IN  FAdd(st[w].algo.loss, SumLoss(S \ {w}))

\* dimension and stepsize of an IGD state
TaskConfig(state) == <<state.task.dimension, state.task.stepsize>>

\* the first transition of a state starts the pass from the previous
\* finalized state's model and dimension when one is given, and from the
\* zero model of the configured dimension otherwise, with the accumulators
\* zeroed: the state then holds one row and that row's loss, every state of
\* the pass keeps the starting model, and the finalized state has counted
\* exactly the rows of this pass and sums exactly their losses.
C9_WarmStart ==
    algo \in LossAlgos =>
        /\ last.op \in TransitionOps /\ NumRows(last.pre) = 0 =>
               /\ last.out.task.model = StartModel
               /\ last.out.task.dimension = PassDimension
               /\ last.out.algo.numRows = 1
               /\ last.out.algo.loss =
                      Task_loss(TaskOf(algo), StartModel, last.arg.indVar,
                                last.arg.depVar)
        /\ \A w \in live :
               NumRows(st[w]) > 0 => st[w].task.model = StartModel
        /\ SumRows(live) = rows
        /\ SumLoss(live) = lossSum
        /\ phase = "finalized" /\ fin # Null =>
               /\ fin.algo.numRows = rows
               /\ fin.algo.loss = lossSum

\* a warm-started pass over MaxRows tuples was finalized; the previous state
\* had counted a row and a loss of its own, and was of another dimension
\* than the one the calls were given
C9_Witness ==
    /\ algo = "linear_svm_igd"
    /\ args.previous # Null
    /\ args.previous.algo.numRows > 0
    /\ args.previous.algo.loss # Zero
    /\ args.previous.task.dimension # args.dimension
    /\ phase = "finalized"
    /\ fin # Null
    /\ fin.algo.numRows = MaxRows
    /\ fin.algo.loss # Zero

\* C9: the first transition of a pass that is given a previous finalized
\* state starts from that state's model and configuration (for the IGD
\* aggregates: its dimension and its stepsize), with the accumulators
\* zeroed, so that the state counts and sums the rows of this pass only; a
\* pass that is given none starts from the zero model of the configured
\* dimension.
C9_WarmStartConfiguration ==
    /\ C9_WarmStart
    /\ last.op \in IGDTransitionOps /\ NumRows(last.pre) = 0
          /\ args.previous # Null =>
           TaskConfig(last.out) = TaskConfig(args.previous)

\* the first transition of a warm-started linear SVM pass returns the
\* previous state's model and dimension with the stepsize of the call, which
\* is not the one the previous state holds
C9_StepsizeReplaced ==
    /\ last.op = "linear_svm_igd_transition"
    /\ NumRows(last.pre) = 0
    /\ args.previous # Null
    /\ last.out.task.dimension = args.previous.task.dimension
    /\ last.out.task.stepsize # args.previous.task.stepsize
    /\ last.out.task.stepsize = args.stepsize

\* C10: dimension and stepsize of an IGD state are set by its first
\* transition; every later transition and every merge leaves them as they
\* are, and all initialized states of a pass hold the same ones.
C10_ConfigFrame ==
    algo \in {"linear_svm_igd", "logit_igd"} =>
        /\ last.op \in IGDTransitionOps /\ NumRows(last.pre) > 0 =>
               TaskConfig(last.out) = TaskConfig(last.pre)
        /\ last.op \in IGDMergeOps /\ NumRows(last.pre) > 0 =>
               TaskConfig(last.out) = TaskConfig(last.pre)
        /\ last.op \in IGDMergeOps /\ NumRows(last.pre) = 0
                                   /\ NumRows(last.arg) > 0 =>
               TaskConfig(last.out) = TaskConfig(last.arg)
        /\ \A v \in live, w \in live :
               NumRows(st[v]) > 0 /\ NumRows(st[w]) > 0 =>
                   TaskConfig(st[v]) = TaskConfig(st[w])

\* two initialized IGD states were merged after the left one had folded a
\* second tuple
C10_Witness ==
    /\ last.op \in IGDMergeOps
    /\ NumRows(last.pre) = 2
    /\ NumRows(last.arg) = 1
    /\ TaskConfig(last.out) = TaskConfig(last.arg)
    /\ last.out.task.stepsize # Zero

CGOps == {"linear_svm_cg_transition", "linear_svm_cg_merge",
          "linear_svm_cg_final"}

\* C11: transition, merge and final of the conjugate-gradient aggregate
\* leave the model as it is: every initialized state of a pass and its
\* finalized state hold the model the pass started from; a call of
\* linear_svm_cg_update with a step that is not zero does change it.
C11_CGModelFixed ==
    algo = "linear_svm_cg" =>
        /\ \A w \in live :
               NumRows(st[w]) > 0 => st[w].task.model = StartModel
        /\ fin # Null => fin.task.model = StartModel
        /\ last.op \in CGOps /\ last.out # Null /\ NumRows(last.out) > 0 =>
               last.out.task.model = StartModel
        /\ last.op \in CGOps /\ last.out # Null /\ NumRows(last.pre) > 0 =>
               last.out.task.model = last.pre.task.model
        /\ last.op = "linear_svm_cg_update" /\ last.out # Raised
              /\ VScale(last.arg.stepsize, last.arg.direction)
                     # ZeroVector(Len(last.arg.direction)) =>
               last.out.task.model # StartModel
                   \/ last.pre.task.dimension = 0

\* a warm-started CG pass over MaxRows tuples was merged and finalized with
\* a direction that is not zero; its model is still the previous, non-zero one
C11_Witness ==
    /\ algo = "linear_svm_cg"
    /\ last.op = "linear_svm_cg_final"
    /\ args.previous # Null
    /\ StartModel # ZeroVector(Len(StartModel))
    /\ fin # Null
    /\ fin.algo.numRows = MaxRows
    /\ fin.task.direction # ZeroVector(Len(fin.task.direction))
    /\ fin.task.model = StartModel

\* C12: linear_svm_cg_update returns the input model plus stepsize times
\* direction in every component, a state of dimension 0 counting as the
\* zero model of the given dimension, and changes no other field (for a
\* direction that has not the size of the model the call throws, or does
\* the same over the components that both have).
C12_CGUpdate ==
    last.op = "linear_svm_cg_update" =>
        LET d == IF last.pre.task.dimension = 0 THEN last.arg.dimension
                 ELSE last.pre.task.dimension
            m == IF last.pre.task.dimension = 0 THEN ZeroVector(d)
                 ELSE last.pre.task.model
        IN  IF Len(last.arg.direction) # d /\ last.out = Raised THEN TRUE
            ELSE
            /\ last.out # Raised
            /\ Len(last.out.task.model) = d
            /\ \A k \in 1..d :
                   k <= Len(last.arg.direction) =>
                       last.out.task.model[k] =
                           FAdd(m[k], FMul(last.arg.stepsize,
                                           last.arg.direction[k]))
            /\ last.out.algo.numRows = last.pre.algo.numRows
            /\ last.out.algo.loss = last.pre.algo.loss
            /\ last.out.task.iteration = last.pre.task.iteration
            /\ last.pre.task.dimension # 0 =>
                   /\ last.out.algo = last.pre.algo
                   /\ last.out.task.dimension = last.pre.task.dimension
                   /\ last.out.task.direction = last.pre.task.direction
                   /\ last.out.task.gradient = last.pre.task.gradient

\* the non-zero model of a finalized state was moved by a non-zero step
C12_Witness ==
    /\ last.op = "linear_svm_cg_update"
    /\ last.out # Raised
    /\ last.pre = fin
    /\ last.pre.task.model # ZeroVector(Len(last.pre.task.model))
    /\ last.out.task.model # last.pre.task.model
    /\ IsFinite(last.out.task.model[1])

\* the model of a state of dimension 0 was moved from zero
C12_WitnessUninitialized ==
    /\ last.op = "linear_svm_cg_update"
    /\ last.pre.task.dimension = 0
    /\ last.out # Raised
    /\ last.out.task.model = VScale(Half, Ones(2))

\* a direction of one component for a model of two: the first component of
\* the model is moved by it
C12_WitnessShorter ==
    /\ last.op = "linear_svm_cg_update"
    /\ last.out # Raised
    /\ Len(last.arg.direction) = 1
    /\ Len(last.out.task.model) = 2

\* a direction of two components for a model of one: the call throws
C12_WitnessRaised ==
    /\ last.op = "linear_svm_cg_update"
    /\ last.pre = fin
    /\ Len(last.pre.task.model) = 1
    /\ Len(last.arg.direction) = 2
    /\ last.out = Raised

\* C13: the final function applied to the state it returned yields the same
\* model and the same loss, for IGD, logistic IGD and CG.
C13_FinalIdempotent ==
    last.op \in FinalOps /\ phase = "finalized" /\ fin # Null
                         /\ last.pre = fin =>
        /\ last.out # Null
        /\ last.out.task.model = fin.task.model
        /\ last.out.algo.loss = fin.algo.loss

\* the CG final function was applied to the finalized state of a pass over
\* several tuples: direction and iteration moved on, model and loss did not
C13_Witness ==
    /\ last.op = "linear_svm_cg_final"
    /\ fin # Null
    /\ last.pre = fin
    /\ last.out # fin
    /\ fin.algo.numRows >= 2
    /\ fin.algo.loss # Zero
    /\ last.out.task.model = fin.task.model
    /\ last.out.algo.loss = fin.algo.loss

\* the IGD final function was applied to a finalized state whose model had
\* moved in the pass
C13_WitnessIGD ==
    /\ last.op = "linear_svm_igd_final"
    /\ fin # Null
    /\ last.pre = fin
    /\ fin.task.model # StartModel
    /\ fin.algo.numRows >= 2
    /\ fin.algo.loss # Zero
    /\ last.out = fin

\* what a CG state and a best-ball state have accumulated
Accumulated(state) ==
    IF algo = "linear_svm_best_ball"
    THEN <<state.loss_list, state.numRows>>
    ELSE <<state.algo.incrGradient, state.algo.loss, state.algo.numRows>>

\* C14: for CG and for best ball, merging three partial states of one pass
\* as (A+B)+C, A+(B+C) and (A+C)+B gives the same gradient sum, loss sum or
\* loss list and the same numRows, and so does merging A+B and B+A.
C14_MergeGroupings ==
    last.op = "groupings"
    /\ algo \in {"linear_svm_cg", "linear_svm_best_ball"} =>
        /\ Accumulated(last.ab_c) = Accumulated(last.a_bc)
        /\ Accumulated(last.ab_c) = Accumulated(last.ac_b)
        /\ Accumulated(last.ab) = Accumulated(last.ba)

\* three CG partial states with a row each and different losses were merged
C14_Witness ==
    /\ last.op = "groupings"
    /\ algo = "linear_svm_cg"
    /\ \A w \in Partials : st[w].algo.numRows = 1
    /\ st[1].algo.loss # st[2].algo.loss
    /\ st[2].algo.incrGradient # st[3].algo.incrGradient
    /\ last.ab_c.algo.numRows = 3

\* best-ball partial states of two rows and one row and an empty one
C14_WitnessBestBall ==
    /\ last.op = "groupings"
    /\ algo = "linear_svm_best_ball"
    /\ st[1].numRows = 2 /\ st[2].numRows = 0 /\ st[3].numRows = 1
    /\ st[1].loss_list # st[3].loss_list
    /\ last.ac_b.numRows = 3

\* i is the lowest index of a smallest entry of the list of losses
IsFirstMin(losses, i) ==
    /\ \A j \in 1..Len(losses) : ~FGreater(losses[i], losses[j])
    /\ \A j \in 1..(i - 1) : FGreater(losses[j], losses[i])

\* the losses of the sub-states of a step-size-search buffer
BBLosses(storage) ==
    LET dimension == ToUInt(Cell(storage, 0))
        arraySize == GLMLossBBState_arraySize(dimension) + 1
    IN  [i \in 1..(Len(storage) \div arraySize) |->
            Cell(storage, BB_loss((i - 1) * arraySize, dimension))]

\* the model of sub-state i (from 1) of a step-size-search buffer
BBModel(storage, i) ==
    LET dimension == ToUInt(Cell(storage, 0))
        arraySize == GLMLossBBState_arraySize(dimension) + 1
    IN  SubVec(storage, BB_model((i - 1) * arraySize), dimension)

\* C15: the search returns the candidate of minimum accumulated loss, the
\* lowest index among equal minima: linear_svm_greedy_step_size returns its
\* stepsize, linear_svm_loss_bb_final its model and its loss.
C15_ArgMinLowestIndex ==
    /\ last.op = "linear_svm_greedy_step_size" /\ last.pre.inBounds =>
           \E i \in 1..Len(last.arg) :
               /\ IsFirstMin(last.pre.loss_list, i)
               /\ last.out = last.arg[i]
    /\ last.op = "linear_svm_loss_bb_final" /\ last.out # Null =>
           \E i \in 1..Len(BBLosses(last.pre)) :
               /\ IsFirstMin(BBLosses(last.pre), i)
               /\ last.out.loss = BBLosses(last.pre)[i]
               /\ last.out.model = BBModel(last.pre, i)

\* three candidates of equal, non-zero accumulated loss: the first is returned
C15_Witness ==
    /\ last.op = "linear_svm_greedy_step_size"
    /\ last.pre.inBounds
    /\ Len(last.arg) = 3
    /\ rows >= 2
    /\ last.pre.loss_list[1] # Zero
    /\ last.pre.loss_list[1] = last.pre.loss_list[2]
    /\ last.pre.loss_list[2] = last.pre.loss_list[3]
    /\ last.out = last.arg[1]

\* the minimum is at the last candidate
C15_WitnessLast ==
    /\ last.op = "linear_svm_greedy_step_size"
    /\ last.pre.inBounds
    /\ Len(last.arg) = 3
    /\ FGreater(last.pre.loss_list[1], last.pre.loss_list[2])
    /\ FGreater(last.pre.loss_list[2], last.pre.loss_list[3])
    /\ last.out = last.arg[3]

\* sub-states of different models and equal loss: the first model is returned
C15_WitnessBuffer ==
    /\ last.op = "linear_svm_loss_bb_final"
    /\ last.out # Null
    /\ Len(BBLosses(last.pre)) = 3
    /\ BBLosses(last.pre)[1] = BBLosses(last.pre)[3]
    /\ BBLosses(last.pre)[1] = BBLosses(last.pre)[2]
    /\ BBModel(last.pre, 1) # BBModel(last.pre, 2)
    /\ BBModel(last.pre, 1) # BBModel(last.pre, 3)
    /\ last.out.model = BBModel(last.pre, 1)

\* C16: after a best-ball pass, loss_list(i) is the sum over the folded
\* tuples of the loss at model + stepsizes(i) * direction and numRows is the
\* number of tuples, however they were split over the workers and merged.
C16_BestBallSums ==
    algo = "linear_svm_best_ball" /\ live \subseteq Workers =>
        /\ SumRows(live) = rows
        /\ phase = "finalized" /\ rows > 0 =>
               /\ fin.value = lossSum.list
               /\ \A w \in live : /\ st[w].numRows = rows
                                  /\ st[w].loss_list = lossSum.list

\* MaxRows tuples that do not all have the same losses, split over two
\* workers and merged
C16_Witness ==
    /\ algo = "linear_svm_best_ball"
    /\ last.op = "linear_svm_best_ball_final"
    /\ rows = MaxRows
    /\ \E w \in Workers \ live : st[w].numRows > 0
    /\ Len(fin.value) = 3
    /\ fin.value[1] # fin.value[2]
    /\ fin.value[2] # fin.value[3]
    /\ fin.value = lossSum.list

\* the search has returned a candidate for a loss list that has an entry
\* for every candidate of the pass
Searched ==
    /\ algo = "linear_svm_best_ball"
    /\ last.op = "linear_svm_greedy_step_size"
    /\ last.pre.inBounds

\* the index of the candidate the search returned (candidates are distinct)
Selected == CHOOSE i \in 1..Len(last.arg) : last.arg[i] = last.out

\* candidate i accumulated a larger loss than the tuples have at the model
\* the search started from
Increases(i) == FGreater(last.pre.loss_list[i], lossSum.base)

\* C17 as stated: a candidate whose accumulated loss is larger than the loss
\* at the current model is never the one the search selects.
C17_NeverIncreasing == Searched => ~Increases(Selected)

\* C17 amended: such a candidate is not selected when some candidate of the
\* list does not increase the loss; the selected one has the least loss.
C17_NotIncreasingIfAvoidable ==
    Searched /\ (\E j \in 1..Len(last.arg) : ~Increases(j)) =>
        /\ ~Increases(Selected)
        /\ \A j \in 1..Len(last.arg) :
               ~FGreater(last.pre.loss_list[Selected], last.pre.loss_list[j])

\* some candidates increase the loss, the selected one does not
C17_Witness ==
    /\ Searched
    /\ rows >= 2
    /\ \E j \in 1..Len(last.arg) : Increases(j)
    /\ \E j \in 1..Len(last.arg) : ~Increases(j) /\ j # 1
    /\ ~Increases(Selected)

\* every candidate increases the loss, and one of them is selected
C17_WitnessAllIncrease ==
    /\ Searched
    /\ \A j \in 1..Len(last.arg) : Increases(j)
    /\ Increases(Selected)

\* the number of sub-accumulators of a step-size-search state
SubStates(state) ==
    IF algo = "linear_svm_best_ball" THEN Len(state.loss_list)
    ELSE Len(state) \div (GLMIGDBBState_arraySize(args.dimension) + 1)

\* the number of tuples sub-accumulator i (from 1) of the state has seen
SubRows(state, i) ==
    IF algo = "linear_svm_best_ball" THEN state.numRows
    ELSE ToUInt(Cell(state,
                     IGDBB_numRows((i - 1) * (GLMIGDBBState_arraySize(
                                                  args.dimension) + 1),
                                   args.dimension)))

\* a transition call on a state that has seen a tuple
LaterSearchTransition ==
    /\ last.op \in {"linear_svm_best_ball_transition",
                    "linear_svm_igd_bb_transition"}
    /\ SubStates(last.pre) > 0
    /\ SubRows(last.pre, 1) > 0

\* C18: the number K of sub-accumulators is fixed by the first transition;
\* a later transition updates exactly those K sub-accumulators and addresses
\* none outside 0..K-1, whatever candidate list it is given, and a merge
\* keeps K.
C18_SubStatesFixed ==
    /\ LaterSearchTransition /\ last.out # Raised =>
           /\ SubStates(last.out) = SubStates(last.pre)
           /\ \A i \in 1..SubStates(last.pre) :
                  SubRows(last.out, i) = SubRows(last.pre, i) + 1
           /\ algo = "linear_svm_igd_bb" => last.inBounds
    /\ last.op = "linear_svm_best_ball_merge"
       /\ last.pre.numRows > 0 /\ last.arg.numRows > 0 =>
           SubStates(last.out) = SubStates(last.pre)

\* a later call with a shorter list: the last sub-accumulator of the buffer
\* is left as it was while the others have seen the tuple
C18_ShorterList ==
    /\ algo = "linear_svm_igd_bb"
    /\ LaterSearchTransition
    /\ last.inBounds
    /\ Len(last.arg.stepsizes) < SubStates(last.pre)
    /\ SubRows(last.out, 1) = SubRows(last.pre, 1) + 1
    /\ SubRows(last.out, SubStates(last.pre))
           = SubRows(last.pre, SubStates(last.pre))

\* a later call with a longer list: a record beyond the buffer is addressed
C18_LongerList ==
    /\ algo = "linear_svm_igd_bb"
    /\ LaterSearchTransition
    /\ ~last.inBounds
    /\ Len(last.arg.stepsizes) > SubStates(last.pre)

\* the best-ball state keeps its K sub-accumulators under every later list
C18_BestBallFixed ==
    algo = "linear_svm_best_ball" => C18_SubStatesFixed

\* C19: linear_svm_predict is true exactly when the score model . x is
\* greater than 0, logit_igd_predict exactly when the probability
\* sigma(model . x) is greater than 0.5; a score of exactly 0 and a
\* probability of exactly 0.5 give false.
C19_PredictThreshold ==
    /\ last.op = "linear_svm_predict" =>
           /\ last.out \in BOOLEAN
           /\ last.out <=> FGreater(dot(last.pre, last.arg), Zero)
           /\ dot(last.pre, last.arg) = Zero => last.out = FALSE
    /\ last.op = "logit_igd_predict" =>
           /\ last.out \in BOOLEAN
           /\ last.out <=> FGreater(Logit_sigma(dot(last.pre, last.arg)), Half)
           /\ Logit_sigma(dot(last.pre, last.arg)) = Half => last.out = FALSE

\* a score of exactly 0 from a non-zero model and a non-zero example
C19_Witness ==
    /\ last.op = "linear_svm_predict"
    /\ last.pre # ZeroVector(Len(last.pre))
    /\ last.arg # ZeroVector(Len(last.arg))
    /\ dot(last.pre, last.arg) = Zero
    /\ last.out = FALSE

\* a positive and a negative score
C19_WitnessPositive ==
    /\ last.op = "linear_svm_predict"
    /\ FGreater(dot(last.pre, last.arg), Zero)
    /\ last.out = TRUE

C19_WitnessNegative ==
    /\ last.op = "linear_svm_predict"
    /\ FLess(dot(last.pre, last.arg), Zero)
    /\ last.out = FALSE

\* a probability of exactly 0.5, and one above it
C19_WitnessLogitHalf ==
    /\ last.op = "logit_igd_predict"
    /\ rows > 0
    /\ Logit_predict(last.pre, last.arg) = Half
    /\ last.out = FALSE

C19_WitnessLogitTrue ==
    /\ last.op = "logit_igd_predict"
    /\ FGreater(Logit_predict(last.pre, last.arg), Half)
    /\ last.out = TRUE

\* the distance between the two most recent stored states is below the
\* tolerance
Converged(c) ==
    /\ c.iteration >= 2
    /\ StateOf(c.rel_state, c.iteration) # Null
    /\ StateOf(c.rel_state, c.iteration - 1) # Null
    /\ LET d == loss_distance(StateOf(c.rel_state, c.iteration - 1),
                              StateOf(c.rel_state, c.iteration)).value
       IN  IsFinite(d) /\ FLess(d, c.args.tolerance)

\* C20: the driver stops as soon as the distance between the two most recent
\* finalized states is below the tolerance or the iteration count reaches
\* num_iterations, so that a run performs at most num_iterations passes.
C20_AtMostNPasses ==
    it.pc # "none" =>
        /\ it.passes <= it.args.num_iterations
        /\ it.pc = "update" =>
               /\ ~Converged(it)
               /\ it.iteration < it.args.num_iterations

\* what the loop does: it is left when the states converged or when the
\* count is above num_iterations, after at most num_iterations + 1 passes
C20_AtMostNPlusOnePasses ==
    it.pc # "none" =>
        /\ it.passes <= it.args.num_iterations + 1
        /\ it.pc = "update" =>
               /\ ~Converged(it)
               /\ it.iteration <= it.args.num_iterations

\* a run that did not converge has returned after num_iterations + 1 passes
C20_PassesBeyondN ==
    /\ it.pc = "returned"
    /\ it.args.num_iterations = 2
    /\ it.passes = 3
    /\ it.result = 3
    /\ ~Converged(it)

\* a run that has returned on convergence before the count was reached
C20_StoppedOnConvergence ==
    /\ it.pc = "returned"
    /\ it.args.num_iterations = MaxIterations
    /\ it.passes = 2
    /\ Converged(it)

\* every pass so far has been stored under its number and was given the
\* state stored under the number before it
PassesInOrder ==
    it.pc # "none" =>
        /\ DOMAIN it.rel_state = 1..it.iteration
        /\ it.passes = it.iteration
        /\ Len(it.seeds) = it.iteration
        /\ \A k \in 1..it.iteration :
               it.seeds[k] = StateOf(it.rel_state, k - 1)

\* a step of the driver keeps the states stored so far under their numbers
KeepsStored ==
    \A k \in DOMAIN it.rel_state :
        /\ k \in DOMAIN it'.rel_state
        /\ it'.rel_state[k] = it.rel_state[k]

\* C21: passes run one after another: pass i+1 starts after pass i has been
\* stored, it is given exactly the state stored for iteration i, and the
\* states stored for earlier iterations stay unchanged under their numbers.
C21_SequentialPasses == [](PassesInOrder) /\ [][KeepsStored]_vars

\* three passes stored, the second and the third seeded with the different
\* states of the passes before them
C21_Witness ==
    /\ it.pc = "test"
    /\ it.iteration = 3
    /\ it.seeds[1] = Null
    /\ it.seeds[2] = it.rel_state[1]
    /\ it.seeds[3] = it.rel_state[2]
    /\ it.rel_state[1] # Null /\ it.rel_state[2] # Null
    /\ it.rel_state[1] # it.rel_state[2]

\* the test has just been evaluated on two stored states
Tested ==
    /\ it.pc \in {"update", "returned"}
    /\ it.iteration >= 2
    /\ StateOf(it.rel_state, it.iteration) # Null
    /\ StateOf(it.rel_state, it.iteration - 1) # Null

NewLoss == it.rel_state[it.iteration].algo.loss

PreviousLoss == it.rel_state[it.iteration - 1].algo.loss

\* C22: the convergence test measures the loss change relative to the loss of
\* the previous iteration: |loss_new - loss_previous| / |loss_previous|.
C22_RelativeToPrevious ==
    Tested =>
        it.distance = AnyType(FDiv(FAbs(FSub(NewLoss, PreviousLoss)),
                                   FAbs(PreviousLoss)))

\* what the test measures: the change relative to the loss of the new state
C22_RelativeToNew ==
    Tested =>
        it.distance = AnyType(FAbs(FDiv(FSub(PreviousLoss, NewLoss),
                                        NewLoss)))

\* previous loss 1, new loss 3/2: the test measures 1/3, not 1/2, and with
\* tolerance 1/2 the run is left
C22_StopsRelativeToNew ==
    /\ Tested
    /\ it.pc = "returned"
    /\ it.iteration <= it.args.num_iterations
    /\ PreviousLoss = One /\ NewLoss = <<3, 2>>
    /\ it.args.tolerance = Half
    /\ it.distance = AnyType(<<1, 3>>)

ShapedTransitionOps == {"linear_svm_igd_transition",
                        "linear_svm_cg_transition",
                        "linear_svm_best_ball_transition",
                        "linear_svm_igd_bb_transition"}

\* the dimension the state of the call is configured with: the dimension
\* argument for a state not yet initialized (and for best ball, whose model
\* is an argument, and the buffer of the step-size search, whose records
\* are bound with it in every call), the state's own dimension afterwards
ConfiguredDimension ==
    IF last.op \in {"linear_svm_best_ball_transition",
                    "linear_svm_igd_bb_transition"}
    THEN last.arg.dimension
    ELSE IF last.pre.algo.numRows = 0 THEN last.arg.dimension
    ELSE last.pre.task.dimension

\* C23: a transition whose example has a feature vector of a length other
\* than the configured dimension fails, and the failing call produces no
\* state: the example is not folded and numRows is not increased.
C23_DimensionMismatch ==
    last.op \in ShapedTransitionOps
    /\ Len(last.arg.tuple.indVar) # ConfiguredDimension =>
        /\ last.out = Raised
        /\ phase = "aborted"
        /\ st[last.worker] = last.pre

\* an example of width 1 is given to a state of dimension 2 that has folded
\* an example, and the call fails
C23_Witness ==
    /\ last.op = "linear_svm_igd_transition"
    /\ last.pre.algo.numRows = 1
    /\ last.pre.task.dimension = 2
    /\ Len(last.arg.tuple.indVar) = 1
    /\ last.out = Raised
    /\ st[last.worker].algo.numRows = 1

\* the buffer of a step-size search of dimension 1 that has folded an
\* example is given an example of width 2
C23_WitnessBuffer ==
    /\ last.op = "linear_svm_igd_bb_transition"
    /\ last.arg.dimension = 1
    /\ Cell(last.pre, 0) = One
    /\ Len(last.arg.tuple.indVar) = 2
    /\ last.out = Raised
    /\ st[1] = last.pre

\* best ball: an example wider than the model
C23_WitnessBestBall ==
    /\ last.op = "linear_svm_best_ball_transition"
    /\ last.arg.dimension = 1
    /\ Len(last.arg.tuple.indVar) = 2
    /\ last.out = Raised

\* the same call where it does not fail: the example is folded into the
\* state, read over the two cells of the model, and counted
C23_FoldedMismatch ==
    /\ last.op = "linear_svm_igd_transition"
    /\ last.pre.algo.numRows = 1
    /\ last.pre.task.dimension = 2
    /\ Len(last.arg.tuple.indVar) = 1
    /\ last.out # Raised
    /\ last.out.task.dimension = 2
    /\ last.out.algo.numRows = 2
    /\ st[last.worker] = last.out

\* best ball: an example wider than the model is folded over the cells of
\* the model
C23_FoldedBestBall ==
    /\ last.op = "linear_svm_best_ball_transition"
    /\ last.arg.dimension = 1
    /\ Len(last.arg.tuple.indVar) = 2
    /\ last.out # Raised
    /\ last.out.numRows = last.pre.numRows + 1

\* an example that fits is folded
C23_WitnessFits ==
    /\ last.op = "linear_svm_igd_transition"
    /\ Len(last.arg.tuple.indVar) = ConfiguredDimension
    /\ last.out # Raised
    /\ last.out.algo.numRows = 2

\* a transition call on a state that is not yet initialized
FirstCall ==
    IF last.op = "linear_svm_igd_bb_transition" THEN Cell(last.pre, 0) = Zero
    ELSE last.pre.algo.numRows = 0

\* the dimension the returned state is configured with
ReturnedDimension ==
    IF last.op = "linear_svm_igd_bb_transition" THEN ToUInt(Cell(last.out, 0))
    ELSE last.out.task.dimension

\* C24: initializing a pass with a configured dimension of 0 fails and
\* produces no state; no transition returns an accumulating state whose
\* dimension is 0.
C24_NoZeroDimension ==
    last.op \in {"linear_svm_igd_transition", "linear_svm_cg_transition",
                 "linear_svm_igd_bb_transition"} =>
        /\ FirstCall /\ last.arg.dimension = 0 => last.out = Raised
        /\ last.out # Raised => ReturnedDimension > 0

\* dimension 0 and an empty example: a state of dimension 0 that has folded
\* an example is returned
C24_ZeroDimensionState ==
    /\ last.op = "linear_svm_igd_transition"
    /\ last.pre = GLMIGDState_initcond
    /\ last.arg.dimension = 0
    /\ last.arg.tuple.indVar = << >>
    /\ last.out # Raised
    /\ last.out.task.dimension = 0
    /\ last.out.algo.numRows = 1
    /\ last.out.algo.loss = One

\* the buffer of a step-size search of dimension 0 keeps a leading cell of 0:
\* the next call takes it for a buffer not yet initialized and starts over
C24_BufferStartsOver ==
    /\ last.op = "linear_svm_igd_bb_transition"
    /\ last.arg.dimension = 0
    /\ rows = 2
    /\ last.out # Raised
    /\ Len(last.pre) > 1
    /\ Cell(last.pre, IGDBB_numRows(0, 0)) = One
    /\ Cell(last.out, IGDBB_numRows(0, 0)) = One

ShapedMergeOps == {"linear_svm_igd_merge", "linear_svm_cg_merge",
                   "linear_svm_best_ball_merge"}

\* the dimension of a state (best ball: its number of candidates)
StateDimension(state) ==
    IF algo = "linear_svm_best_ball" THEN state.dimension
    ELSE state.task.dimension

\* a merge call on two states that have both folded an example
MergedNonEmpty ==
    /\ last.op \in ShapedMergeOps
    /\ NumRows(last.pre) > 0
    /\ NumRows(last.arg) > 0

\* C25: a merge of two non-empty states of different dimension (best ball:
\* of different numbers of candidates) does not return a combined state.
C25_MergeSameDimension ==
    MergedNonEmpty /\ StateDimension(last.pre) # StateDimension(last.arg) =>
        /\ last.out = Raised
        /\ phase = "aborted"
        /\ \E i \in live, j \in live :
               i # j /\ st[i] = last.pre /\ st[j] = last.arg

\* a state of dimension 1 and a state of dimension 2, one example each:
\* the call fails
C25_Witness ==
    /\ last.op = "linear_svm_igd_merge"
    /\ MergedNonEmpty
    /\ last.pre.task.dimension = 1
    /\ last.arg.task.dimension = 2
    /\ last.out = Raised

\* best ball: two and three candidates
C25_WitnessBestBall ==
    /\ last.op = "linear_svm_best_ball_merge"
    /\ MergedNonEmpty
    /\ last.pre.dimension = 3
    /\ last.arg.dimension = 2
    /\ last.out = Raised

\* a state of dimension 2 and a state of dimension 1, one example each, are
\* combined into a state of dimension 2 that has counted both
C25_CombinedMismatch ==
    /\ last.op = "linear_svm_igd_merge"
    /\ MergedNonEmpty
    /\ last.pre.task.dimension = 2
    /\ last.arg.task.dimension = 1
    /\ last.out # Raised
    /\ last.out.task.dimension = 2
    /\ last.out.algo.numRows = 2

\* best ball: a state of two candidates and a state of three are combined
\* into a state of two candidates
C25_CombinedBestBall ==
    /\ last.op = "linear_svm_best_ball_merge"
    /\ MergedNonEmpty
    /\ last.pre.dimension = 2
    /\ last.arg.dimension = 3
    /\ last.out # Raised
    /\ Len(last.out.loss_list) = 2
    /\ last.out.numRows = last.pre.numRows + last.arg.numRows

\* two non-empty states of one dimension are combined
C25_WitnessSame ==
    /\ last.op = "linear_svm_igd_merge"
    /\ MergedNonEmpty
    /\ last.pre.task.dimension = 2
    /\ last.arg.task.dimension = 2
    /\ last.out # Raised
    /\ last.out.algo.numRows = 2

\* an empty state is merged with a state of any dimension
C25_WitnessEmpty ==
    /\ last.op = "linear_svm_igd_merge"
    /\ last.pre.algo.numRows = 1 /\ last.pre.task.dimension = 1
    /\ last.arg.algo.numRows = 0
    /\ last.out = last.pre

\* C26: merge(L, R) leaves both input states, as the caller holds them,
\* unchanged.
C26_MergeIsPure ==
    last.op \in ShapedMergeOps =>
        /\ last.left = last.pre
        /\ last.right = last.arg

\* the right-hand state, bound to a read-only handle, is never written
C26_RightUnchanged ==
    last.op \in ShapedMergeOps => last.right = last.arg

\* the caller's left-hand state holds the combined state after the call
C26_WrittenInPlace ==
    /\ last.op = "linear_svm_igd_merge"
    /\ MergedNonEmpty
    /\ last.out # Raised
    /\ last.left = last.out
    /\ last.left # last.pre

RidgeOps == {"ridge_newton_run", "ridge_newton_run/5"}

\* the dimensions the stored models were computed with
StoredDimensions(c) ==
    {c.rel_output[i].coefficients.result_of.dimension :
        i \in 1..Len(c.rel_output)}

\* C27: ridge_newton_run called with a dimension above 32767 ends in an
\* error and stores no model, and no model is ever computed with a dimension
\* other than the one the caller gave.
C27_RejectsLargeDimension ==
    /\ last.op \in RidgeOps /\ last.arg.dimension > INT2_MAX =>
           /\ last.out = Raised
           /\ it.rel_output = last.pre.rel_output
           /\ it.exists = last.pre.exists
    /\ last.op \in RidgeOps /\ last.out # Raised =>
           /\ Len(it.rel_output) = Len(last.pre.rel_output) + 1
           /\ it.rel_output[Len(it.rel_output)].id = last.out.model_id
           /\ it.rel_output[Len(it.rel_output)].coefficients.result_of.dimension
                  = last.arg.dimension
    /\ algo = "ridge_newton" =>
           \A d \in StoredDimensions(it) : d \in RidgeDimensions /\ d <= INT2_MAX

\* a call with dimension 65537 (1 in its low 16 bits) after a model was stored
C27_Witness ==
    /\ last.op = "ridge_newton_run"
    /\ last.arg.dimension = 2 * (INT2_MAX + 1) + 1
    /\ last.out = Raised
    /\ Len(last.pre.rel_output) = 1
    /\ it.rel_output = last.pre.rel_output

\* the first call fails: no table is left behind
C27_WitnessFirst ==
    /\ last.op = "ridge_newton_run/5"
    /\ last.arg.dimension = INT2_MAX + 1
    /\ last.out = Raised
    /\ ~it.exists

\* dimension 32767 is accepted
C27_WitnessLargest ==
    /\ last.op = "ridge_newton_run"
    /\ last.arg.dimension = INT2_MAX
    /\ last.out = [model_id |-> 1]
    /\ StoredDimensions(it) = {INT2_MAX}

\* a call of an entry point that got as far as its argument table
RunStarted == last.op = "run" /\ last.out # Raised

Given(name) == name \in DOMAIN last.arg

\* C28: a run called without a stepsize uses stepsize 0.01; called without
\* num_iterations and tolerance it uses 10 and 0.000001; lasso_igd_run
\* without lambda uses lambda 0.1.
C28_Defaults ==
    RunStarted =>
        /\ last.fn # "logit_newton" /\ ~Given("stepsize") =>
               last.out.stepsize = <<1, 100>>
        /\ ~Given("num_iterations") =>
               /\ last.out.num_iterations = 10
               /\ last.out.tolerance = <<1, 1000000>>
        /\ last.fn = "lasso_igd" /\ ~Given("lambda") =>
               last.out.lambda = <<1, 10>>

\* the defaults of num_iterations, tolerance and lambda are the stated ones
C28_DefaultsButStepsize ==
    RunStarted =>
        /\ ~Given("num_iterations") =>
               /\ last.out.num_iterations = 10
               /\ last.out.tolerance = <<1, 1000000>>
        /\ last.fn = "lasso_igd" /\ ~Given("lambda") =>
               last.out.lambda = <<1, 10>>
        /\ Given("stepsize") => last.out.stepsize = last.arg.stepsize

\* a run without a stepsize uses 0.1 (logit_newton_run has no stepsize)
C28_StepsizeTenth ==
    RunStarted /\ last.fn # "logit_newton" /\ ~Given("stepsize") =>
        last.out.stepsize = <<1, 10>>

\* the driver's return value in the entry points agrees with the loop of
\* compute_lasso_igd: every run of the loop returns a number in IterationsRun
DriverReturnsIterationsRun ==
    it.pc = "returned" => it.result \in IterationsRun(it.args.num_iterations)

\* linear_svm_igd_run called with five arguments has run
C28_WitnessFive ==
    /\ RunStarted
    /\ last.fn = "linear_svm_igd"
    /\ last.arity = 5
    /\ Len(it.rel_output) = Len(last.pre.rel_output) + 1

CoxRun == last.op = "cox_prop_hazards"

\* C29: cox_prop_hazards with an optimizer other than 'newton' ends with
\* the error "Unknown optimizer" and returns no row; with 'newton' it returns
\* the result of the state stored for the iteration that
\* compute_cox_prop_hazards returned.
C29_UnknownOptimizer ==
    CoxRun =>
        /\ last.arg.optimizer # "newton" =>
               /\ "raised" \in DOMAIN last.out
               /\ last.out.message = "Unknown optimizer"
               /\ it = last.pre
        /\ last.arg.optimizer = "newton" =>
               /\ IF last.computed.rel_state[last.computed.iteration] = Null
                  THEN last.out = Null
                  ELSE /\ last.out.coef_of =
                              last.computed.rel_state[last.computed.iteration]
                       /\ last.out.num_iterations = last.computed.iteration
               /\ it.rel_state = last.computed.rel_state

\* optimizer 'cg' after a run with 'newton'
C29_Witness ==
    /\ CoxRun
    /\ last.arg.optimizer = "cg"
    /\ last.out = UnknownOptimizer("cg")
    /\ Len(it.rel_state) = 2

\* 'newton', twenty iterations: the row of the twentieth state
C29_WitnessNewton ==
    /\ CoxRun
    /\ last.arity = 3
    /\ last.computed.iteration = 20
    /\ last.out # Null
    /\ last.out.coef_of.step = 20
    /\ last.out.num_iterations = 20

\* the transition functions that test numRows == 0 and initialize
InitializingOps == {"linear_svm_igd_transition", "logit_igd_transition",
                    "linear_svm_cg_transition"}

\* the loss of the tuple of the last call at the model the state holds
LossAt(state) ==
    Task_loss(TaskOf(algo), state.task.model, last.arg.indVar,
              last.arg.depVar)

\* C30: the initialization block of a transition function runs on the first
\* transition of a worker's state (numRows = 0) and on no later one: a later
\* transition keeps the task of the state and adds to the loss and the count
\* of the examples already folded.
C30_InitializesOnce ==
    last.op \in InitializingOps =>
        IF last.pre.algo.numRows = 0
        THEN /\ last.out.task.model = StartModel
             /\ last.out.algo.numRows = 1
             /\ last.out.algo.loss = LossAt(last.out)
        ELSE /\ last.out.task = last.pre.task
             /\ last.out.algo.numRows = last.pre.algo.numRows + 1
             /\ last.out.algo.loss = FAdd(last.pre.algo.loss, LossAt(last.pre))

\* a later transition of a warm-started conjugate-gradient state that had
\* folded two examples of non-zero loss
C30_Witness ==
    /\ last.op = "linear_svm_cg_transition"
    /\ args.previous # Null
    /\ last.pre.algo.numRows = 2
    /\ FGreater(last.pre.algo.loss, Zero)
    /\ last.out.algo.numRows = 3
    /\ FGreater(last.out.algo.loss, last.pre.algo.loss)

\* the first transition of the IGD aggregate, from the initial condition
C30_WitnessFirst ==
    /\ last.op = "linear_svm_igd_transition"
    /\ last.pre = GLMIGDState_initcond
    /\ last.out.algo.numRows = 1
    /\ last.out.task.dimension = args.dimension

BBTransitionOps == {"linear_svm_igd_bb_transition",
                    "linear_svm_loss_bb_transition"}

BufferFinalOps == {"linear_svm_igd_bb_final", "linear_svm_loss_bb_final"}

\* the cells of the first record that a transition on a populated buffer
\* of the step-size search leaves alone: dimension, stepsize, model
BBHead(storage) == SubVec(storage, 0, 2 + ToUInt(Cell(storage, 0)))

\* C31: the first cell of a step-size-search buffer is 0 exactly while the
\* buffer is empty: after the first transition of a pass, with or without a
\* previous model, it is non-zero, later transitions work on the buffer they
\* are given, and the final function does not report no-data.
C31_MarkerNonZero ==
    /\ algo \in {"linear_svm_igd_bb", "linear_svm_loss_bb"} =>
           \A w \in Workers :
               Cell(st[w], 0) = Zero <=> st[w] = BBStorage_initcond
    /\ last.op \in BBTransitionOps /\ last.out # Raised =>
           /\ Cell(last.out, 0) # Zero
           /\ Cell(last.pre, 0) # Zero =>
                  /\ Len(last.out) = Len(last.pre)
                  /\ BBHead(last.out) = BBHead(last.pre)
    /\ last.op = "linear_svm_igd_bb_transition" /\ last.out # Raised
          /\ Cell(last.pre, 0) # Zero =>
           BBNumRows(last.out, 0, args.dimension) =
               BBNumRows(last.pre, 0, args.dimension) + 1
    /\ last.op \in BufferFinalOps /\ rows > 0 => last.out # Null

\* the second transition of a pass that was given a previous model
C31_Witness ==
    /\ last.op = "linear_svm_igd_bb_transition"
    /\ args.previous # Null
    /\ Cell(last.pre, 0) # Zero
    /\ BBNumRows(last.pre, 0, args.dimension) = 1
    /\ BBNumRows(last.out, 0, args.dimension) = 2

\* the final function after a pass with a previous model
C31_WitnessFinal ==
    /\ last.op = "linear_svm_igd_bb_final"
    /\ args.previous # Null
    /\ rows = MaxRows
    /\ last.out # Null

\* the final function on the initial condition
C31_WitnessEmpty ==
    /\ last.op = "linear_svm_igd_bb_final"
    /\ last.pre = BBStorage_initcond
    /\ last.out = Null

\* the cells of sub-state i (from 0) of a step-size-search buffer
BBRecord(storage, i, dimension) ==
    SubVec(storage, i * (GLMIGDBBState_arraySize(dimension) + 1),
           GLMIGDBBState_arraySize(dimension) + 1)

BBBase(i, dimension) == i * (GLMIGDBBState_arraySize(dimension) + 1)

\* sub-state i of the buffer holds what the IGD aggregate single holds
SameAsSingle(storage, i, dimension, single) ==
    /\ Cell(storage, BB_stepsize(BBBase(i, dimension))) = single.task.stepsize
    /\ SubVec(storage, BB_model(BBBase(i, dimension)), dimension)
           = single.task.model
    /\ SubVec(storage, IGDBB_incrModel(BBBase(i, dimension), dimension),
              dimension) = single.algo.incrModel
    /\ BBNumRows(storage, i, dimension) = single.algo.numRows

\* C32: the K sub-accumulators of linear_svm_igd_bb_transition are
\* independent: after any sequence of examples sub-state i holds the model and
\* the count of one IGD aggregate run from the same model with stepsize
\* stepsizes(i) on the same examples, and the step of sub-state i touches no
\* cell of another sub-state.
C32_IndependentSubStates ==
    algo = "linear_svm_igd_bb" =>
        LET K == Len(args.stepsizes)
            d == args.dimension
        IN  /\ \A w \in live : st[w] # BBStorage_initcond =>
                   \A i \in 0..(K - 1) :
                       SameAsSingle(st[w], i, d, lossSum[i + 1])
            /\ last.op = "linear_svm_igd_bb_transition"
               /\ last.pre # BBStorage_initcond =>
                   \A i \in 0..(K - 1) :
                       LET alone == igd_bb_step_record(last.pre, BBBase(i, d),
                                                       d, last.arg)
                       IN  /\ BBRecord(last.out, i, d) = BBRecord(alone, i, d)
                           /\ \A j \in 0..(K - 1) : j # i =>
                                  BBRecord(alone, j, d) =
                                      BBRecord(last.pre, j, d)
            /\ last.op = "linear_svm_igd_bb_final" /\ last.out # Null =>
                   \A i \in 0..(K - 1) :
                       SubVec(last.out.value,
                              BB_model(i * (GLMLossBBState_arraySize(d) + 1)),
                              d)
                           = linear_svm_igd_final(lossSum[i + 1]).task.model

\* three sub-states, a previous model, MaxRows examples folded, and the
\* sub-states have moved to different models
C32_Witness ==
    /\ last.op = "linear_svm_igd_bb_transition"
    /\ Len(args.stepsizes) = 3
    /\ args.previous # Null
    /\ rows = MaxRows
    /\ lossSum[1].algo.incrModel # lossSum[3].algo.incrModel
    /\ lossSum[3].algo.numRows = MaxRows

\* no state of the sequence has a smaller loss than the one at index i, and
\* every state before it has a greater loss
FirstOfLeastLoss(folded, i) ==
    /\ \A j \in 1..Len(folded) :
           ~FLess(folded[j].algo.loss, folded[i].algo.loss)
    /\ \A j \in 1..(i - 1) :
           FGreater(folded[j].algo.loss, folded[i].algo.loss)

\* C33: folding a sequence of finalized IGD states with
\* linear_svm_igd_min_transition yields the first state of the sequence whose
\* loss is the minimum of the losses of the sequence.
C33_KeepsFirstMinimum ==
    algo = "linear_svm_igd_min" /\ it.folded # << >> =>
        \E i \in 1..Len(it.folded) :
            /\ FirstOfLeastLoss(it.folded, i)
            /\ st[1] = it.folded[i]

\* three states folded, the first and the third of the least loss and of
\* different models: the first is kept
C33_Witness ==
    /\ last.op = "linear_svm_igd_min_transition"
    /\ Len(it.folded) = 3
    /\ it.folded[1].algo.loss = Half
    /\ it.folded[2].algo.loss = One
    /\ it.folded[3].algo.loss = Half
    /\ it.folded[1] # it.folded[3]
    /\ st[1] = it.folded[1]

\* a later state of strictly smaller loss replaces the kept one
C33_WitnessReplaced ==
    /\ last.op = "linear_svm_igd_min_transition"
    /\ Len(it.folded) = 2
    /\ FGreater(last.pre.algo.loss, last.arg.algo.loss)
    /\ st[1] = it.folded[2]

\* the iteration counter a pass starts from: that of the state the pass
\* before returned, 0 in a first pass
StartIteration ==
    IF args.previous # Null THEN args.previous.task.iteration ELSE 0

\* the number of the pass in its run: the states handed to a warm start are
\* those a first pass returned
PassNumber == IF args.previous # Null THEN 2 ELSE 1

CGStateOps == {"linear_svm_cg_transition", "linear_svm_cg_merge"}

\* C34: the CG iteration counter advances by exactly 1 per finalized pass
\* and is carried across passes by the warm start: every state that has
\* folded an example holds the counter of the state the pass was seeded with
\* (0 in a first pass), transition and merge return the counter of the
\* state they were given, and the final function returns that counter plus
\* 1, which is the number of passes finalized so far.
C34_IterationPerPass ==
    algo = "linear_svm_cg" =>
        /\ \A w \in live :
               NumRows(st[w]) > 0 => st[w].task.iteration = StartIteration
        /\ (last.op \in CGStateOps /\ NumRows(last.pre) > 0) =>
               last.out.task.iteration = last.pre.task.iteration
        /\ (last.op = "linear_svm_cg_final" /\ last.out # Null) =>
               last.out.task.iteration = last.pre.task.iteration + 1
        /\ (phase = "finalized" /\ fin # Null) =>
               /\ fin.task.iteration = StartIteration + 1
               /\ fin.task.iteration = PassNumber

\* the second pass of a run, seeded with the state of the first, folded
\* examples on two workers, merged them and was finalized with counter 2
C34_Witness ==
    /\ last.op = "linear_svm_cg_final"
    /\ args.previous # Null
    /\ args.previous.task.iteration = 1
    /\ last.pre.algo.numRows = 3
    /\ last.pre.task.iteration = 1
    /\ last.out.task.iteration = 2
    /\ fin = last.out

\* a merge of two warm-started states that both folded an example
C34_WitnessMerge ==
    /\ last.op = "linear_svm_cg_merge"
    /\ args.previous # Null
    /\ NumRows(last.pre) > 0 /\ NumRows(last.arg) > 0
    /\ last.out.task.iteration = 1

\* C35: in every IGD pass, cold-started or warm-started, the stepsize held
\* in the state after the first transition equals the stepsize argument of
\* the pass's transition calls, for linear_svm_igd_transition and for
\* logit_igd_transition alike.
C35_StepsizeFromArgument ==
    (last.op \in IGDTransitionOps /\ last.pre.algo.numRows = 0) =>
        last.out.task.stepsize = args.stepsize

\* the same for the linear SVM transition alone, which assigns the argument
\* in both branches
C35_StepsizeLinearSVM ==
    (last.op = "linear_svm_igd_transition" /\ last.pre.algo.numRows = 0) =>
        last.out.task.stepsize = args.stepsize

\* a warm-started first transition of the linear SVM aggregate whose previous
\* state was computed with another stepsize
C35_WitnessLinearSVM ==
    /\ last.op = "linear_svm_igd_transition"
    /\ last.pre.algo.numRows = 0
    /\ args.previous # Null
    /\ args.previous.task.stepsize # args.stepsize
    /\ last.out.task.stepsize = args.stepsize

\* a warm-started first transition of the logistic aggregate keeps the
\* stepsize of the previous state
C35_WitnessLogit ==
    /\ last.op = "logit_igd_transition"
    /\ last.pre.algo.numRows = 0
    /\ args.previous # Null
    /\ args.previous.task.stepsize # args.stepsize
    /\ last.out.task.stepsize = args.previous.task.stepsize

\* the pass over two partitions has been finalized
Partitioned == it.pc = "partitions" /\ phase = "finalized"

\* C36: for IGD the result depends on the partitioning.  Folding all
\* examples in one stream and folding two partitions and merging them count
\* the same examples (numRows is the same, and one result is Null exactly
\* when the other is), and the two models are equal when one partition is
\* empty; with two non-empty partitions the models may differ.
C36_PartitionedSameRows ==
    Partitioned =>
        /\ (fin = Null) = (last.stream = Null)
        /\ (fin = Null) = (rows = 0)
        /\ fin # Null =>
               /\ fin.algo.numRows = last.stream.algo.numRows
               /\ fin.algo.numRows = rows
               /\ (\E w \in Partitions : NumRows(st[w]) = 0) =>
                      fin.task.model = last.stream.task.model

\* one stream and two partitions of the same two examples end at different
\* models with the same numRows
C36_Witness ==
    /\ Partitioned
    /\ fin # Null /\ last.stream # Null
    /\ NumRows(st[2]) > 0 /\ NumRows(st[3]) > 0
    /\ fin.algo.numRows = last.stream.algo.numRows
    /\ fin.task.model # last.stream.task.model

\* two non-empty partitions whose merged model is that of the one stream
C36_WitnessEqual ==
    /\ Partitioned
    /\ fin # Null
    /\ NumRows(st[2]) > 0 /\ NumRows(st[3]) > 0
    /\ fin.task.model = last.stream.task.model

\* compute_lasso_igd has returned an iteration number under which a row of
\* rel_state was stored
DriverReturned ==
    /\ it.pc = "returned"
    /\ it.result = it.iteration
    /\ it.result \in DOMAIN it.rel_state

\* C37: the iteration driver always terminates: for every num_iterations and
\* every sequence of pass results, passes that return no data and undefined
\* distance values included, the loop of compute_lasso_igd is eventually
\* left, and the function returns an iteration number under which a state
\* was stored.
C37_DriverTerminates ==
    /\ <>DriverReturned
    /\ [](it.pc = "returned" => DriverReturned)

\* the loop was left by the iteration count alone: every pass returned no
\* data, so no distance was defined
C37_Witness ==
    /\ DriverReturned
    /\ it.args.num_iterations = MaxIterations
    /\ it.result = MaxIterations + 1
    /\ \A k \in DOMAIN it.rel_state : it.rel_state[k] = Null
    /\ it.distance = Null

\* the loop was left after passes of zero loss: the distance divides by 0
C37_WitnessZeroBaseline ==
    /\ DriverReturned
    /\ it.result >= 2
    /\ \A k \in DOMAIN it.rel_state :
           it.rel_state[k] # Null /\ it.rel_state[k].algo.loss = Zero

\* the state stored under the iteration number compute_cox_prop_hazards
\* returned in the last call
CoxStored == StateOf(last.computed.rel_state, last.computed.iteration)

\* C38: whenever cox_prop_hazards returns a non-null result, its
\* num_iterations field equals the iteration number returned by
\* compute_cox_prop_hazards, and the other fields are those the result
\* function computed from the state stored under that iteration; a null
\* result is returned unchanged.
C38_NumIterations ==
    (CoxRun /\ "raised" \notin DOMAIN last.out) =>
        IF last.out # Null
        THEN /\ last.out.num_iterations = last.computed.iteration
             /\ last.out.num_iterations = Len(last.computed.rel_state)
             /\ last.out =
                    [internal_cox_prop_hazards_result(CoxStored) EXCEPT
                        !.num_iterations = last.computed.iteration]
        ELSE /\ internal_cox_prop_hazards_result(CoxStored) = Null
             /\ "num_iterations" \notin DOMAIN last.out

\* a run of two iterations: the result function left num_iterations at 0,
\* the row returned has 2
C38_Witness ==
    /\ CoxRun
    /\ last.arg.optimizer = "newton"
    /\ last.computed.iteration = 2
    /\ CoxStored # Null
    /\ internal_cox_prop_hazards_result(CoxStored).num_iterations = 0
    /\ last.out.num_iterations = 2
    /\ last.out.coef_of = last.computed.rel_state[2]

\* a run over a source without rows: the null result is returned
C38_WitnessNull ==
    /\ CoxRun
    /\ last.arg.optimizer = "newton"
    /\ last.computed.iteration = 20
    /\ CoxStored = Null
    /\ last.out = Null

====
